---- MODULE Spec2Model ----
(***************************************************************************)
(* koa-router (Router), the koa Application request cycle and the pipeline  *)
(* composer they share, as a state machine.                                 *)
(*                                                                          *)
(* A path string is held in parsed form, as the sequence of its segments:   *)
(* /forums/:fid is the pattern of a literal segment forums and a parameter  *)
(* segment fid, the catch-all pattern that use registers without a path is  *)
(* the one-segment pattern Wild, and a request path /forums/7/42 is the     *)
(* sequence of the strings forums, 7 and 42.                                *)
(***************************************************************************)
EXTENDS Integers, Sequences, FiniteSets, TLC

VARIABLES
    stack,      \* Router.stack: the registered layers, in registration order
    appMw,      \* Application.middleware
    phase,      \* setup, running or done
    ctx,        \* the request context of the request in flight
    matched,    \* `matched` of the router's dispatch: the result of Router.match
    chain,      \* `layerChain` of the router's dispatch
    index,      \* `index` of each composed pipeline (app, router)
    frames,     \* the handlers entered and not yet completed, outermost first
    ret,        \* the completion being delivered to the innermost frame
    trace,      \* history: the handler events of this request, in order
    result,     \* what handleRequest did with the pipeline's completion
    res,        \* the node response of the request, as respond and onerror use it
    redux,      \* the closure of one call of the enhancer applyMiddleware returns
    heap,       \* the Layer objects created so far; a reference is a position in it
    routers,    \* the Router objects parent and sub: stack (of references), params, opts.prefix
    call,       \* the last call of url or of use with a sub-router, and what url returned
    inflight,   \* the requests in flight: context and place in the chain of each
    closures    \* the handlers router.redirect has made: destination and code of each

vars ==
    <<stack, appMw, phase, ctx, matched, chain, index, frames, ret, trace, result, res,
      redux, heap, routers, call, inflight, closures>>

(***************************************************************************)
(* Bounds of the model.                                                     *)
(***************************************************************************)
MaxLayers == 2      \* layers a router registers
MaxMw == 3          \* middleware an application uses
MaxMiddlewares == 2 \* middlewares given to applyMiddleware
MaxDispatches == 2  \* actions dispatched through one enhanced store
MaxSegments == 5    \* segments of a layer's pattern
MaxAttached == 2    \* param handlers attached to one layer

(***************************************************************************)
(* Values.                                                                  *)
(***************************************************************************)
Lit(s) == <<"lit", s>>
Par(n) == <<"par", n>>
Wild == <<"wild">>

NoName == "null"
Undefined == "undefined"
Unset == 0

\* Router.methods, the verbs the router implements
Implemented == <<"HEAD", "OPTIONS", "GET", "PUT", "PATCH", "POST", "DELETE">>

\* the verbs of the module `methods` (those of node's http.METHODS), which
\* Router.prototype.all registers; the layer holds them in upper case
HttpMethods ==
    << "ACL", "BIND", "CHECKOUT", "CONNECT", "COPY", "DELETE", "GET", "HEAD", "LINK",
       "LOCK", "M-SEARCH", "MERGE", "MKACTIVITY", "MKCALENDAR", "MKCOL", "MOVE", "NOTIFY",
       "OPTIONS", "PATCH", "POST", "PROPFIND", "PROPPATCH", "PURGE", "PUT", "QUERY",
       "REBIND", "REPORT", "SEARCH", "SOURCE", "SUBSCRIBE", "TRACE", "UNBIND", "UNLINK",
       "UNLOCK", "UNSUBSCRIBE" >>

RoutePaths == { <<Lit("x")>>, <<Lit("forums"), Par("fid"), Par("pid")>> }
MountPaths == { <<Lit("forums"), Par("fid")>> }
UsePaths == MountPaths \cup { <<>> }   \* and the empty string
RouteVerbs == {"GET", "POST"}
RequestMethods == {"GET", "OPTIONS", "DELETE", "TRACE"}
RequestPaths == { <<"x">>, <<"forums", "%37", "42">> }
HandlerCounts == {1, 2}     \* how many handlers one route is given

SeqToSet(s) == { s[i] : i \in 1..Len(s) }

\* no parameter has a value
EmptyParams == [n \in {} |-> ""]

(***************************************************************************)
(* Layer (required from ./layer).                                           *)
(***************************************************************************)
IsPar(seg) == seg[1] = "par"

\* the positions of the parameter segments of a pattern, in order
ParPositions(pat) ==
    SelectSeq([i \in 1..Len(pat) |-> i], LAMBDA i : IsPar(pat[i]))

\* paramNames: the names of the pattern's named parameters, in order
ParamNames(pat) ==
    LET pos == ParPositions(pat) IN [k \in 1..Len(pos) |-> pat[pos[k]][2]]

\* new Layer(path, methods, middleware, opts)
NewLayer(path, methods, middleware, opts) ==
    [ path           |-> path,
      methods        |-> methods,
      stack          |-> middleware,
      name           |-> opts.name,
      end            |-> opts.end,
      ignoreCaptures |-> opts.ignoreCaptures,
      prefix         |-> opts.prefix,
      paramStack     |-> <<>>,
      paramNames     |-> ParamNames(path) ]

\* a segment of a pattern against a segment of a path; the text of a
\* failure value is no segment of a path
SegMatch(seg, s) ==
    IF seg[1] = "lit" THEN seg[2] = s ELSE IF seg[1] = "error" THEN FALSE ELSE TRUE

\* Layer.prototype.match: the compiled pattern accepts the path
LayerMatch(layer, path) ==
    IF layer.path = <<Wild>>
    THEN TRUE
    ELSE /\ IF layer.end
            THEN Len(path) = Len(layer.path)
            ELSE Len(path) >= Len(layer.path)
         /\ \A i \in 1..Len(layer.path) : SegMatch(layer.path[i], path[i])

\* Layer.prototype.captures: the raw substrings of the parameter positions
LayerCaptures(layer, path, prior) ==
    IF layer.ignoreCaptures
    THEN prior
    ELSE LET pos == ParPositions(layer.path)
         IN  [k \in 1..Len(pos) |-> path[pos[k]]]

\* percent-decoding of one captured value
Decode(s) == IF s = "%37" THEN "7" ELSE s

\* Layer.prototype.params: zip paramNames with captures, decode, merge into
\* the params bound so far
LayerParams(layer, path, captures, existing) ==
    LET n     == IF Len(captures) < Len(layer.paramNames)
                 THEN Len(captures) ELSE Len(layer.paramNames)
        bound == { layer.paramNames[i] : i \in 1..n }
        last(name) == CHOOSE i \in 1..n :
                        /\ layer.paramNames[i] = name
                        /\ \A j \in 1..n : layer.paramNames[j] = name => j <= i
    IN  [ name \in (DOMAIN existing) \cup bound |->
            IF name \in bound THEN Decode(captures[last(name)]) ELSE existing[name] ]

\* Layer.prototype.setPrefix: the pattern becomes prefix + pattern and is
\* compiled again
SetPrefix(layer, prefix) ==
    [layer EXCEPT !.path = prefix \o @, !.paramNames = ParamNames(prefix \o layer.path)]

\* Layer.prototype.param: a layer that declares the parameter runs the
\* handler before its own handlers; paramStack is that front part of the
\* stack of the layer
LayerParam(layer, param, fn) ==
    IF param \in SeqToSet(layer.paramNames)
    THEN [layer EXCEPT !.paramStack = <<[param |-> param, fn |-> fn]>> \o @]
    ELSE layer

\* Layer.prototype.url: the pattern with the parameter values put in, or a
\* failure value when a parameter has no value
LayerUrl(layer, params) ==
    IF \E i \in 1..Len(layer.path) :
          IsPar(layer.path[i]) /\ layer.path[i][2] \notin DOMAIN params
    THEN [kind |-> "error", value |-> <<"UnresolvedRoute">>]
    ELSE [kind  |-> "string",
          value |-> [i \in 1..Len(layer.path) |->
                       IF IsPar(layer.path[i]) THEN params[layer.path[i][2]]
                       ELSE IF layer.path[i] = Wild THEN "*"
                       ELSE layer.path[i][2]]]

(***************************************************************************)
(* Router.                                                                  *)
(***************************************************************************)
\* Object.keys(this.params).forEach(param => route.param(param, ...))
RECURSIVE ParamAll(_, _)
ParamAll(layer, params) ==
    IF params = <<>>
    THEN layer
    ELSE ParamAll(LayerParam(layer, Head(params).param, Head(params).fn), Tail(params))

\* the layer Router.prototype.register builds for a router of that prefix
\* and those param handlers; an option is the empty sequence when it is not
\* given, and so is the prefix
RegisterRoute(prefix, params, path, methods, middleware, opts) ==
    LET route == NewLayer(path, methods, middleware,
                          [ name           |-> opts.name,
                            end            |-> IF opts.end = <<FALSE>> THEN FALSE ELSE TRUE,
                            prefix         |-> prefix,
                            ignoreCaptures |-> opts.ignoreCaptures ])
    IN  ParamAll(IF prefix # <<>> THEN SetPrefix(route, prefix) ELSE route, params)

\* Router.prototype.register on a router that has no prefix and no param
\* handler: build one layer and push it on the stack
Register(stk, path, methods, middleware, opts) ==
    Append(stk, RegisterRoute(<<>>, <<>>, path, methods, middleware, opts))

\* the path use registers a plain middleware at: path || catch-all.  The
\* empty string is a path given (hasPath) and yet falls back on the
\* catch-all pattern
UsePath(hasPath, path) == IF hasPath /\ path # <<>> THEN path ELSE <<Wild>>

\* an argument of redirect: a path, which starts with a slash, or else the
\* name of a route
TargetPath(path) == [name |-> "", path |-> path]
TargetName(name) == [name |-> name, path |-> <<>>]

\* the pattern a path string compiles to
PatternOf(value) ==
    [i \in 1..Len(value) |-> IF value[i] = "*" THEN Wild ELSE Lit(value[i])]

\* the path redirect hands to all(): the source, or what url made of it, a
\* failure value that is registered as the path all the same
RedirectPath(from) ==
    IF from.kind = "string"
    THEN PatternOf(from.value)
    ELSE << <<"error">> \o from.value >>

\* the handler router.redirect makes: ctx => { ctx.redirect(destination);
\* ctx.status = code || 301 }; code is 0 when it is not given.  The handlers
\* made are kept in `closures`, and a layer refers to the k-th by -k.
RedirectHandler(destination, code) == [destination |-> destination, code |-> code]
IsRedirect(fn) == fn.type = "handler" /\ fn.h < 0

\* what the handler does to the context; ctx.redirect is taken to record
\* its argument
RedirectContext(c, f) ==
    [c EXCEPT !.redirected = Append(@, f.destination),
              !.status = IF f.code # 0 THEN f.code ELSE 301]

\* the loop of Router.prototype.match from layer i on; m is `matched`
RECURSIVE MatchFrom(_, _, _, _, _)
MatchFrom(layers, i, path, method, m) ==
    IF i > Len(layers)
    THEN m
    ELSE LET layer == layers[i]
             m1 == IF LayerMatch(layer, path)
                   THEN [ path |-> Append(m.path, i),
                          pathAndMethod |->
                              IF Len(layer.methods) = 0 \/ method \in SeqToSet(layer.methods)
                              THEN Append(m.pathAndMethod, i)
                              ELSE m.pathAndMethod,
                          route |->
                              IF /\ (Len(layer.methods) = 0 \/ method \in SeqToSet(layer.methods))
                                 /\ Len(layer.methods) > 0
                              THEN TRUE
                              ELSE m.route ]
                   ELSE m
         IN  MatchFrom(layers, i + 1, path, method, m1)

NoMatch == [path |-> <<>>, pathAndMethod |-> <<>>, route |-> FALSE]

\* a match that reports a route for every layer that matches path and method,
\* its method set empty or not
MatchAnyIsRoute(layers, path, method) ==
    LET m == MatchFrom(layers, 1, path, method, NoMatch)
    IN  [m EXCEPT !.route = (m.pathAndMethod # <<>>)]

\* Router.prototype.match; a layer is referred to by its position in the stack
Match(layers, path, method) == MatchFrom(layers, 1, path, method, NoMatch)

\* a reduce that puts each layer's binding step after the layer's handlers
LayerChainBindLast(layers, matchedLayers, memo) ==
    LET flat[k \in 0..Len(matchedLayers)] ==
            IF k = 0 THEN memo
            ELSE LET l == matchedLayers[k]
                 IN  (flat[k - 1]
                      \o [j \in 1..Len(layers[l].stack) |->
                             [type |-> "handler", layer |-> l, h |-> layers[l].stack[j],
                              throw |-> FALSE]])
                      \o <<[type |-> "bind", layer |-> l, h |-> 0, throw |-> FALSE]>>
    IN  flat[Len(matchedLayers)]

\* the reduce of the router's dispatch: for each matched layer a parameter
\* binding step, then the layer's own handlers
RECURSIVE LayerChain(_, _, _)
LayerChain(layers, matchedLayers, memo) ==
    IF matchedLayers = <<>>
    THEN memo
    ELSE LET l == Head(matchedLayers)
         IN  LayerChain(layers, Tail(matchedLayers),
                 Append(memo, [type |-> "bind", layer |-> l, h |-> 0, throw |-> FALSE])
                 \o [j \in 1..Len(layers[l].stack) |->
                        [type |-> "handler", layer |-> l, h |-> layers[l].stack[j],
                         throw |-> FALSE]])

(***************************************************************************)
(* The pipeline composer (required from koa-compose).  The source counts    *)
(* handlers from 0 and starts index at -1; here handlers are counted from 1 *)
(* and index starts at 0.                                                   *)
(***************************************************************************)
Ok == "ok"
None == "none"
MultipleNext == "next() called multiple times"
Boom == "Boom"
TypeError == "TypeError"
NotImplemented == "NotImplemented"
MethodNotAllowed == "MethodNotAllowed"

NewFrame(pipe, i, fn) == [pipe |-> pipe, i |-> i, fn |-> fn, beh |-> None, pc |-> "pre"]

\* the position in the application's pipeline of the router's dispatch that
\* is in progress: its `next` is what the router's pipeline ends with
RoutesPos(fr) ==
    LET k == CHOOSE k \in 1..Len(fr) : fr[k].fn.type = "routes" IN fr[k].i

\* a composer that does not remember which handlers it was asked for
NeverCalled(idx, pipe, i) == FALSE

\* has pipeline `pipe` been asked for handler i before
AlreadyCalled(idx, pipe, i) == i <= idx[pipe]

\* dispatch(i) of the composed pipeline `pipe`: run handler i, or the final
\* next after the last handler, or fail on a second call
RECURSIVE Dispatch(_, _, _, _, _)
Dispatch(lists, pipe, i, fr, idx) ==
    IF AlreadyCalled(idx, pipe, i)
    THEN [frames |-> fr, index |-> idx, ret |-> MultipleNext]
    ELSE LET idx1 == [idx EXCEPT ![pipe] = i]
         IN  IF i <= Len(lists[pipe])
             THEN [frames |-> Append(fr, NewFrame(pipe, i, lists[pipe][i])),
                   index |-> idx1, ret |-> None]
             ELSE IF pipe = "router"
                  THEN Dispatch(lists, "app", RoutesPos(fr) + 1, fr, idx1)
                  ELSE [frames |-> fr, index |-> idx1, ret |-> Ok]

Front(s) == SubSeq(s, 1, Len(s) - 1)
Top == frames[Len(frames)]
SetTop(fr, beh, pc) == [fr EXCEPT ![Len(fr)].beh = beh, ![Len(fr)].pc = pc]
Lists == [app |-> appMw, router |-> chain]

(***************************************************************************)
(* Router.prototype.allowedMethods.                                         *)
(***************************************************************************)
\* Object.keys(allowed): the methods of the layers of ctx.matched, each once,
\* in the order they are first met
RECURSIVE AllowedArr(_, _, _)
AllowedArr(layers, matchedLayers, acc) ==
    IF matchedLayers = <<>>
    THEN acc
    ELSE LET ms == layers[Head(matchedLayers)].methods
             add[k \in 0..Len(ms)] ==
                 IF k = 0 THEN acc
                 ELSE IF ms[k] \in SeqToSet(add[k - 1])
                      THEN add[k - 1]
                      ELSE Append(add[k - 1], ms[k])
         IN  AllowedArr(layers, Tail(matchedLayers), add[Len(ms)])

SetAllow(c, status, arr) ==
    [c EXCEPT !.status = status, !.allowSet = TRUE, !.allow = arr]

\* a then callback that answers 405 without looking the method up
AllowedPostNoLookup(c, layers, throw) ==
    IF c.status = Unset \/ c.status = 404
    THEN LET allowedArr == AllowedArr(layers, c.matched, <<>>)
         IN  IF c.method \notin SeqToSet(Implemented)
             THEN IF throw
                  THEN [ctx |-> c, ret |-> NotImplemented]
                  ELSE [ctx |-> SetAllow(c, 501, allowedArr), ret |-> Ok]
             ELSE IF Len(allowedArr) > 0
                  THEN IF c.method = "OPTIONS"
                       THEN [ctx |-> [SetAllow(c, 200, allowedArr) EXCEPT !.body = ""],
                             ret |-> Ok]
                       ELSE IF throw
                            THEN [ctx |-> c, ret |-> MethodNotAllowed]
                            ELSE [ctx |-> SetAllow(c, 405, allowedArr), ret |-> Ok]
                  ELSE [ctx |-> c, ret |-> Ok]
    ELSE [ctx |-> c, ret |-> Ok]

\* a then callback that looks at the resource's methods before it asks
\* whether the router implements the method
AllowedPostResourceFirst(c, layers, throw) ==
    IF c.status = Unset \/ c.status = 404
    THEN LET allowedArr == AllowedArr(layers, c.matched, <<>>)
         IN  IF Len(allowedArr) > 0
             THEN IF c.method = "OPTIONS"
                  THEN [ctx |-> [SetAllow(c, 200, allowedArr) EXCEPT !.body = ""],
                        ret |-> Ok]
                  ELSE IF c.method \notin SeqToSet(allowedArr)
                       THEN IF throw
                            THEN [ctx |-> c, ret |-> MethodNotAllowed]
                            ELSE [ctx |-> SetAllow(c, 405, allowedArr), ret |-> Ok]
                       ELSE [ctx |-> c, ret |-> Ok]
             ELSE IF c.method \notin SeqToSet(Implemented)
                  THEN IF throw
                       THEN [ctx |-> c, ret |-> NotImplemented]
                       ELSE [ctx |-> SetAllow(c, 501, allowedArr), ret |-> Ok]
                  ELSE [ctx |-> c, ret |-> Ok]
    ELSE [ctx |-> c, ret |-> Ok]

\* a then callback that never raises: it writes the status and the header
\* whatever the throw option says
AllowedPostNeverThrows(c, layers, throw) ==
    IF c.status = Unset \/ c.status = 404
    THEN LET allowedArr == AllowedArr(layers, c.matched, <<>>)
         IN  IF c.method \notin SeqToSet(Implemented)
             THEN [ctx |-> SetAllow(c, 501, allowedArr), ret |-> Ok]
             ELSE IF Len(allowedArr) > 0
                  THEN IF c.method = "OPTIONS"
                       THEN [ctx |-> [SetAllow(c, 200, allowedArr) EXCEPT !.body = ""],
                             ret |-> Ok]
                       ELSE IF c.method \notin SeqToSet(allowedArr)
                            THEN [ctx |-> SetAllow(c, 405, allowedArr), ret |-> Ok]
                            ELSE [ctx |-> c, ret |-> Ok]
                  ELSE [ctx |-> c, ret |-> Ok]
    ELSE [ctx |-> c, ret |-> Ok]

\* a then callback that does not look at the status downstream left
AllowedPostAnyStatus(c, layers, throw) ==
    LET allowedArr == AllowedArr(layers, c.matched, <<>>)
    IN  IF c.method \notin SeqToSet(Implemented)
        THEN IF throw
             THEN [ctx |-> c, ret |-> NotImplemented]
             ELSE [ctx |-> SetAllow(c, 501, allowedArr), ret |-> Ok]
        ELSE IF Len(allowedArr) > 0
             THEN IF c.method = "OPTIONS"
                  THEN [ctx |-> [SetAllow(c, 200, allowedArr) EXCEPT !.body = ""],
                        ret |-> Ok]
                  ELSE IF c.method \notin SeqToSet(allowedArr)
                       THEN IF throw
                            THEN [ctx |-> c, ret |-> MethodNotAllowed]
                            ELSE [ctx |-> SetAllow(c, 405, allowedArr), ret |-> Ok]
                       ELSE [ctx |-> c, ret |-> Ok]
             ELSE [ctx |-> c, ret |-> Ok]

\* the function allowedMethods passes to next().then: the context it leaves
\* and how it completes; ctx.matched.forEach fails when no dispatch of a
\* router has given the context its matched list
AllowedPost(c, layers, throw) ==
    IF c.status = Unset \/ c.status = 404
    THEN IF ~c.matchedSet
         THEN [ctx |-> c, ret |-> TypeError]
         ELSE
         LET allowedArr == AllowedArr(layers, c.matched, <<>>)
         IN  IF c.method \notin SeqToSet(Implemented)
             THEN IF throw
                  THEN [ctx |-> c, ret |-> NotImplemented]
                  ELSE [ctx |-> SetAllow(c, 501, allowedArr), ret |-> Ok]
             ELSE IF Len(allowedArr) > 0
                  THEN IF c.method = "OPTIONS"
                       THEN [ctx |-> [SetAllow(c, 200, allowedArr) EXCEPT !.body = ""],
                             ret |-> Ok]
                       ELSE IF c.method \notin SeqToSet(allowedArr)
                            THEN IF throw
                                 THEN [ctx |-> c, ret |-> MethodNotAllowed]
                                 ELSE [ctx |-> SetAllow(c, 405, allowedArr), ret |-> Ok]
                            ELSE [ctx |-> c, ret |-> Ok]
                  ELSE [ctx |-> c, ret |-> Ok]
    ELSE [ctx |-> c, ret |-> Ok]

(***************************************************************************)
(* Routers whose layers are shared objects.  router.use(sub.routes())      *)
(* pushes the layers of the sub-router on the stack of the router, and      *)
(* setPrefix and param change a layer in place, so the layers live in a     *)
(* heap and a stack is the sequence of their references.                    *)
(***************************************************************************)
Routers == {"parent", "sub"}

\* new Router(): no layer, no param handler, no prefix (the empty path)
NewRouter == [stack |-> <<>>, params |-> <<>>, prefix |-> <<>>]

\* neither has been called yet
NoCall == [op |-> "none", router |-> "none", name |-> "", kind |-> "none", value |-> <<>>,
           layer |-> 0, prefix |-> <<>>]

\* prefix.replace(/\/$/, ''): a path that ends in a slash has an empty last
\* segment
StripSlash(prefix) ==
    IF prefix # <<>> /\ prefix[Len(prefix)] = Lit("")
    THEN SubSeq(prefix, 1, Len(prefix) - 1)
    ELSE prefix

\* the forEach of Router.prototype.prefix and of the mount: setPrefix on each
\* reference of the stack in turn, a layer met twice being prefixed twice
RECURSIVE PrefixEach(_, _, _)
PrefixEach(h, ids, prefix) ==
    IF ids = <<>>
    THEN h
    ELSE PrefixEach([h EXCEPT ![Head(ids)] = SetPrefix(@, prefix)], Tail(ids), prefix)

\* the forEach of Router.prototype.param
RECURSIVE ParamEach(_, _, _, _)
ParamEach(h, ids, param, fn) ==
    IF ids = <<>>
    THEN h
    ELSE ParamEach([h EXCEPT ![Head(ids)] = LayerParam(@, param, fn)], Tail(ids), param, fn)

\* this.params[param] = middleware: a key keeps its place in Object.keys
SetParam(params, param, fn) ==
    IF \E i \in 1..Len(params) : params[i].param = param
    THEN [i \in 1..Len(params) |->
            IF params[i].param = param THEN [param |-> param, fn |-> fn] ELSE params[i]]
    ELSE Append(params, [param |-> param, fn |-> fn])

\* Router.prototype.register on router r of the world w = (heap, routers)
RouterRegister(w, r, path, methods, middleware, opts) ==
    LET route == RegisterRoute(w.routers[r].prefix, w.routers[r].params,
                               path, methods, middleware, opts)
    IN  [heap    |-> Append(w.heap, route),
         routers |-> [w.routers EXCEPT ![r].stack = Append(@, Len(w.heap) + 1)]]

\* a param that stores the handler and leaves the layers alone
RouterParamStoreOnly(w, r, param, fn) ==
    [heap    |-> w.heap,
     routers |-> [w.routers EXCEPT ![r].params = SetParam(@, param, fn)]]

\* Router.prototype.param
RouterParam(w, r, param, fn) ==
    [heap    |-> ParamEach(w.heap, w.routers[r].stack, param, fn),
     routers |-> [w.routers EXCEPT ![r].params = SetParam(@, param, fn)]]

\* Router.prototype.prefix
RouterPrefix(w, r, prefix) ==
    [heap    |-> PrefixEach(w.heap, w.routers[r].stack, StripSlash(prefix)),
     routers |-> [w.routers EXCEPT ![r].prefix = StripSlash(prefix)]]

\* the m.router.stack.forEach of Router.prototype.use, from the nested layer
\* at position i on
RECURSIVE Splice(_, _, _, _, _)
Splice(w, r, m, path, i) ==
    IF i > Len(w.routers[m].stack)
    THEN w
    ELSE LET id      == w.routers[m].stack[i]
             mounted == IF path # <<>> THEN SetPrefix(w.heap[id], path) ELSE w.heap[id]
             nested  == IF w.routers[r].prefix # <<>>
                        THEN SetPrefix(mounted, w.routers[r].prefix)
                        ELSE mounted
         IN  Splice([heap    |-> [w.heap EXCEPT ![id] = nested],
                     routers |-> [w.routers EXCEPT ![r].stack = Append(@, id)]],
                    r, m, path, i + 1)

\* Object.keys(router.params).forEach(key => m.router.param(key, ...))
RECURSIVE PropagateParams(_, _, _)
PropagateParams(w, m, params) ==
    IF params = <<>>
    THEN w
    ELSE PropagateParams(RouterParam(w, m, Head(params).param, Head(params).fn),
                         m, Tail(params))

\* a mount that pushes copies of the nested layers
UseRouterCopies(w, r, m, path) ==
    LET nested == [i \in 1..Len(w.routers[m].stack) |->
                     LET l == w.heap[w.routers[m].stack[i]]
                         p == IF path # <<>> THEN SetPrefix(l, path) ELSE l
                     IN  IF w.routers[r].prefix # <<>>
                         THEN SetPrefix(p, w.routers[r].prefix) ELSE p]
    IN  [heap    |-> w.heap \o nested,
         routers |-> [w.routers EXCEPT ![r].stack =
                        @ \o [i \in 1..Len(nested) |-> Len(w.heap) + i]]]

\* Router.prototype.use for a middleware that is the dispatch of router m;
\* path is the empty path when use is given none
UseRouter(w, r, m, path) ==
    PropagateParams(Splice(w, r, m, path, 1), m, w.routers[r].params)

\* the layers of a router, in stack order
LayersOf(h, rs, r) == [i \in 1..Len(rs[r].stack) |-> h[rs[r].stack[i]]]

\* a lookup that keeps the last layer of the name
RouteLast(layers, name) ==
    LET hits == { i \in 1..Len(layers) : layers[i].name # NoName /\ layers[i].name = name }
    IN  IF hits = {} THEN 0 ELSE CHOOSE i \in hits : \A j \in hits : j <= i

\* Router.prototype.route: the position of the first layer of that name, 0
\* for false
Route(layers, name) ==
    LET hits == { i \in 1..Len(layers) : layers[i].name # NoName /\ layers[i].name = name }
    IN  IF hits = {} THEN 0 ELSE CHOOSE i \in hits : \A j \in hits : i <= j

\* a url that throws when no layer carries the name
UrlThrows(layers, name, params) ==
    IF Route(layers, name) # 0
    THEN LayerUrl(layers[Route(layers, name)], params)
    ELSE [kind |-> "thrown", value |-> <<"No route found for name", name>>]

\* Router.prototype.url: what it returns
Url(layers, name, params) ==
    IF Route(layers, name) # 0
    THEN LayerUrl(layers[Route(layers, name)], params)
    ELSE [kind |-> "error", value |-> <<"No route found for name", name>>]

\* redirect: an argument that does not start with a slash is looked up by
\* name, this.url(name)
Resolve(layers, target) ==
    IF target.name = ""
    THEN [kind |-> "string", value |-> target.path]
    ELSE Url(layers, target.name, EmptyParams)

(***************************************************************************)
(* redux applyMiddleware: the enhancer applied to a store.  A middleware is *)
(* api => next => action => ..., so it is called three times: with the      *)
(* middleware API, with next when the chain is composed, and with each      *)
(* action dispatched.                                                       *)
(***************************************************************************)
\* the enhancer has not been called
NoRedux ==
    [ pc |-> "start", n |-> 0, k |-> 0, dispatch |-> "none", calls |-> <<>>, made |-> 0,
      log |-> <<>>, store |-> <<>>, returned |-> <<>> ]

\* what createStore(...args) returns: the store of redux, or one an earlier
\* enhancer has given another getState
Stores ==
    { [ dispatch |-> "store", subscribe |-> "subscribe", getState |-> g,
        replaceReducer |-> "replaceReducer" ] : g \in {"getState", "enhancedGetState"} }

\* a returned object that carries the new dispatch and nothing of the store
EnhancedDispatchOnly(store, dispatch) ==
    [f \in DOMAIN store |-> IF f = "dispatch" THEN dispatch ELSE "undefined"]

\* { ...store, dispatch }
Enhanced(store, dispatch) == [store EXCEPT !.dispatch = dispatch]

\* a closure whose dispatch starts as the dispatch of the store
InitialDispatchStore == "store"

\* let dispatch = () => { throw new Error(Dispatching while constructing ...) }
InitialDispatch == "thrower"

ReduxEvent(ev, i, stage) == [ev |-> ev, i |-> i, stage |-> stage]
ReduxLog(r, ev, i) == [r EXCEPT !.log = Append(@, ReduxEvent(ev, i, r.pc))]

\* the function of the chain at position i is called with an action; past
\* the last one it is store.dispatch, the base the chain was composed over
EnterChain(r, i) ==
    IF i > r.n
    THEN ReduxLog(r, "store", i)
    ELSE [ReduxLog(r, "enter", i) EXCEPT !.calls = Append(@, [i |-> i, pc |-> "pre"])]

\* dispatch(...args) with the dispatch the closure holds at this moment,
\* called by `caller` (0 is the user of the store)
CallDispatch(r, caller) ==
    LET called == ReduxLog(r, "call", caller)
    IN  CASE r.dispatch = "thrower" ->
               [redux |-> ReduxLog(called, "threw", caller), threw |-> TRUE]
          [] r.dispatch = "store" ->
               [redux |-> ReduxLog(called, "store", caller), threw |-> FALSE]
          [] r.dispatch = "composed" ->
               [redux |-> EnterChain(called, 1), threw |-> FALSE]

\* what a middleware does while it is constructed: nothing, a call of the
\* dispatch of the middleware API, or such a call inside try/catch
ConstructBehaviours == {"quiet", "eager", "guarded"}

\* applyMiddleware(...middlewares)(createStore)(...args) up to the map
ApplyMiddleware(n) ==
    /\ redux.pc = "start"
    /\ \E store \in Stores :
          redux' = [NoRedux EXCEPT !.pc = "map", !.n = n, !.k = 1, !.store = store,
                                   !.dispatch = InitialDispatch]
    /\ UNCHANGED <<stack, appMw, phase, ctx, matched, chain, index, frames, ret, trace,
                   result, res, heap, routers, call, inflight, closures>>

\* one call of a middleware during construction, at position k: the call
\* throws out of applyMiddleware if the middleware lets a failure escape
Constructed(r, b, next) ==
    IF b = "quiet"
    THEN [r EXCEPT !.k = next]
    ELSE LET d == CallDispatch(r, r.k)
         IN  IF d.threw /\ b = "eager"
             THEN [d.redux EXCEPT !.pc = "failed"]
             ELSE [d.redux EXCEPT !.k = next]

\* middlewares.map(middleware => middleware(middlewareAPI)), one element
Construct ==
    /\ redux.pc = "map"
    /\ redux.k <= redux.n
    /\ \E b \in ConstructBehaviours : redux' = Constructed(redux, b, redux.k + 1)
    /\ UNCHANGED <<stack, appMw, phase, ctx, matched, chain, index, frames, ret, trace,
                   result, res, heap, routers, call, inflight, closures>>

\* compose(...chain) is about to be applied to store.dispatch
Compose ==
    /\ redux.pc = "map"
    /\ redux.k > redux.n
    /\ redux' = [redux EXCEPT !.pc = "compose", !.k = redux.n]
    /\ UNCHANGED <<stack, appMw, phase, ctx, matched, chain, index, frames, ret, trace,
                   result, res, heap, routers, call, inflight, closures>>

\* compose(...chain)(store.dispatch): the last function of the chain is
\* applied first, to store.dispatch, and each one before it to the result
Wrap ==
    /\ redux.pc = "compose"
    /\ redux.k >= 1
    /\ \E b \in ConstructBehaviours : redux' = Constructed(redux, b, redux.k - 1)
    /\ UNCHANGED <<stack, appMw, phase, ctx, matched, chain, index, frames, ret, trace,
                   result, res, heap, routers, call, inflight, closures>>

\* dispatch = <the composed function>; return { ...store, dispatch }
Assign ==
    /\ redux.pc = "compose"
    /\ redux.k = 0
    /\ redux' = [redux EXCEPT !.pc = "built", !.dispatch = "composed",
                              !.returned = Enhanced(redux.store, "composed")]
    /\ UNCHANGED <<stack, appMw, phase, ctx, matched, chain, index, frames, ret, trace,
                   result, res, heap, routers, call, inflight, closures>>

\* the user dispatches an action through the store the enhancer returned
EnhancedDispatch ==
    /\ redux.pc = "built"
    /\ redux.calls = <<>>
    /\ redux.made < MaxDispatches
    /\ redux' = [CallDispatch(redux, 0).redux EXCEPT !.made = @ + 1]
    /\ UNCHANGED <<stack, appMw, phase, ctx, matched, chain, index, frames, ret, trace,
                   result, res, heap, routers, call, inflight, closures>>

ReduxTop == redux.calls[Len(redux.calls)]
SetReduxTop(r, pc) == [r EXCEPT !.calls[Len(r.calls)].pc = pc]

\* a middleware handles an action: it calls next(action), or first
\* dispatches another action through the middleware API
MiddlewareRuns ==
    /\ redux.calls # <<>>
    /\ ReduxTop.pc = "pre"
    /\ \/ redux' = EnterChain(SetReduxTop(redux, "wait"), ReduxTop.i + 1)
       \/ /\ redux.made < MaxDispatches
          /\ redux' = [CallDispatch(redux, ReduxTop.i).redux EXCEPT !.made = @ + 1]
    /\ UNCHANGED <<stack, appMw, phase, ctx, matched, chain, index, frames, ret, trace,
                   result, res, heap, routers, call, inflight, closures>>

\* next(action) has returned: the middleware returns
MiddlewareReturns ==
    /\ redux.calls # <<>>
    /\ ReduxTop.pc = "wait"
    /\ redux' = [ReduxLog(redux, "exit", ReduxTop.i) EXCEPT
                    !.calls = SubSeq(@, 1, Len(@) - 1)]
    /\ UNCHANGED <<stack, appMw, phase, ctx, matched, chain, index, frames, ret, trace,
                   result, res, heap, routers, call, inflight, closures>>

(***************************************************************************)
(* State.                                                                   *)
(***************************************************************************)
UserFn == [type |-> "user", layer |-> 0, h |-> 0, throw |-> FALSE]
RoutesFn == [type |-> "routes", layer |-> 0, h |-> 0, throw |-> FALSE]
AllowedFn(throw) == [type |-> "allowed", layer |-> 0, h |-> 0, throw |-> throw]

\* Application.createContext, and the status handleRequest starts from
NewContext(method, path, status) ==
    [ method           |-> method,
      path             |-> path,
      status           |-> status,
      body             |-> Undefined,
      allowSet         |-> FALSE,
      allow            |-> <<>>,
      matchedSet       |-> FALSE,
      matched          |-> <<>>,
      captures         |-> <<>>,
      params           |-> EmptyParams,
      matchedRoute     |-> <<>>,
      matchedRouteName |-> Undefined,
      routerName       |-> Undefined,
      respond          |-> Undefined,
      redirected       |-> <<>> ]

\* the node response of a request nothing has been written to: how often
\* res.end and ctx.onerror were called, how many of the calls of ctx.onerror
\* came from .catch(onerror) and how many from the listener given to
\* onFinished, the listeners registered, and what the last one was called with
NewResponse ==
    [ ended |-> 0, onerror |-> 0, payload |-> None, type |-> None, lengthOf |-> None,
      writable |-> TRUE, listeners |-> 0, caught |-> 0, finished |-> 0,
      finishedWith |-> None ]

\* the requests the server has in flight at once
Requests == {"a", "b"}

\* a request that has not arrived
Idle == [pc |-> "idle", ctx |-> NewContext("GET", <<>>, Unset), todo |-> <<>>, bound |-> 0]

\* the status a request starts from: res.statusCode = 404 in handleRequest
InitialStatus == {404}

InitCommon ==
    /\ stack = <<>>
    /\ phase = "setup"
    /\ ctx = NewContext("GET", <<>>, Unset)
    /\ matched = NoMatch
    /\ chain = <<>>
    /\ index = [app |-> 0, router |-> 0]
    /\ frames = <<>>
    /\ ret = None
    /\ trace = <<>>
    /\ result = None
    /\ res = NewResponse
    /\ redux = NoRedux
    /\ heap = <<>>
    /\ routers = [r \in Routers |-> NewRouter]
    /\ call = NoCall
    /\ inflight = [q \in Requests |-> Idle]
    /\ closures = <<>>

\* app.use(router.routes()).use(router.allowedMethods(options))
Init ==
    /\ InitCommon
    /\ \E throw \in BOOLEAN : appMw = <<RoutesFn, AllowedFn(throw)>>

\* an application of plain middleware
InitCompose ==
    /\ InitCommon
    /\ appMw = <<>>

(***************************************************************************)
(* Setup: registration.                                                     *)
(***************************************************************************)
RouteNames == {NoName, "user", "admin"}
UrlNames == {"user", "admin"}

\* the arguments given to redirect: code 0 is no code
RedirectSources == {TargetPath(<<"x">>), TargetName("user")}
RedirectDestinations == {TargetPath(<<"forums", "7", "42">>), TargetName("admin")}
RedirectCodes == {0, 302}

\* the handler functions given to one registration call
Middleware(n) == [j \in 1..n |-> j]

\* router.get / router.post / ... (name, path, ...middleware)
RegisterVerb(name, path, method, n) ==
    /\ phase = "setup"
    /\ Len(stack) < MaxLayers
    /\ stack' = Register(stack, path, <<method>>, Middleware(n),
                         [name |-> name, end |-> <<>>, ignoreCaptures |-> FALSE])
    /\ UNCHANGED <<appMw, phase, ctx, matched, chain, index, frames, ret, trace,
                   result, res, redux, heap, routers, call, inflight, closures>>

\* the middleware.forEach of router.use for plain middleware: one layer for
\* each function, at the path or at the catch-all pattern
RECURSIVE UseEach(_, _, _, _)
UseEach(stk, hasPath, path, ms) ==
    IF ms = <<>>
    THEN stk
    ELSE UseEach(Register(stk, UsePath(hasPath, path), <<>>, <<Head(ms)>>,
                          [name |-> NoName, end |-> <<FALSE>>, ignoreCaptures |-> ~hasPath]),
                 hasPath, path, Tail(ms))

\* router.use(path?, ...middleware)
Use(hasPath, path, n) ==
    /\ phase = "setup"
    /\ Len(stack) + n <= MaxLayers
    /\ stack' = UseEach(stack, hasPath, path, Middleware(n))
    /\ UNCHANGED <<appMw, phase, ctx, matched, chain, index, frames, ret, trace,
                   result, res, redux, heap, routers, call, inflight, closures>>

\* router.redirect(source, destination, code): all(source, handler) with a
\* handler of the router's own.  A source that is a name url does not
\* resolve hands the failure value to all() as the path, and the layer is
\* registered with it.
Redirect(source, destination, code) ==
    /\ phase = "setup"
    /\ Len(stack) < MaxLayers
    /\ closures' = Append(closures, RedirectHandler(Resolve(stack, destination), code))
    /\ stack' = Register(stack, RedirectPath(Resolve(stack, source)), HttpMethods,
                         <<-(Len(closures) + 1)>>,
                         [name |-> NoName, end |-> <<>>, ignoreCaptures |-> FALSE])
    /\ UNCHANGED <<appMw, phase, ctx, matched, chain, index, frames, ret, trace,
                   result, res, redux, heap, routers, call, inflight>>

\* app.use(fn)
AppUse ==
    /\ phase = "setup"
    /\ Len(appMw) < MaxMw
    /\ appMw' = Append(appMw, UserFn)
    /\ UNCHANGED <<stack, phase, ctx, matched, chain, index, frames, ret, trace,
                   result, res, redux, heap, routers, call, inflight, closures>>

\* app.use(router.allowedMethods(options)) on an application that uses no
\* router.routes(): no dispatch gives the context a matched list
AppUseAllowed(throw) ==
    /\ phase = "setup"
    /\ Len(appMw) < MaxMw
    /\ appMw' = Append(appMw, AllowedFn(throw))
    /\ UNCHANGED <<stack, phase, ctx, matched, chain, index, frames, ret, trace,
                   result, res, redux, heap, routers, call, inflight, closures>>

(***************************************************************************)
(* Setup of the routers parent and sub.                                     *)
(***************************************************************************)
World == [heap |-> heap, routers |-> routers]

Prefixes == { <<Lit("api")>>, <<Lit("api"), Lit("")>> }
ParamKeys == {"fid"}
ParamFns == {1, 2}
UrlParams == { EmptyParams, [n \in {"fid", "pid"} |-> IF n = "fid" THEN "3" ELSE "9"] }

\* no pattern and no layer has outgrown the model
Fits(w) ==
    \A i \in 1..Len(w.heap) :
       /\ Len(w.heap[i].path) <= MaxSegments
       /\ Len(w.heap[i].paramStack) <= MaxAttached

\* router.get / router.post / ... (name, path, fn) on router r
RouterVerb(r, name, path, method) ==
    /\ phase = "setup"
    /\ Len(heap) < MaxLayers
    /\ LET w == RouterRegister(World, r, path, <<method>>, Middleware(1),
                               [name |-> name, end |-> <<>>, ignoreCaptures |-> FALSE])
       IN  /\ Fits(w)
           /\ heap' = w.heap
           /\ routers' = w.routers
    /\ UNCHANGED <<stack, appMw, phase, ctx, matched, chain, index, frames, ret, trace,
                   result, res, redux, call, inflight, closures>>

\* router.all(name, path, fn) on router r
RouterAll(r, name, path) ==
    /\ phase = "setup"
    /\ Len(heap) < MaxLayers
    /\ LET w == RouterRegister(World, r, path, HttpMethods, Middleware(1),
                               [name |-> name, end |-> <<>>, ignoreCaptures |-> FALSE])
       IN  /\ Fits(w)
           /\ heap' = w.heap
           /\ routers' = w.routers
    /\ UNCHANGED <<stack, appMw, phase, ctx, matched, chain, index, frames, ret, trace,
                   result, res, redux, call, inflight, closures>>

\* router.use(path?, fn) on router r, fn a plain middleware
RouterUse(r, hasPath, path) ==
    /\ phase = "setup"
    /\ Len(heap) < MaxLayers
    /\ LET w == RouterRegister(World, r, UsePath(hasPath, path), <<>>,
                               Middleware(1),
                               [name |-> NoName, end |-> <<FALSE>>,
                                ignoreCaptures |-> ~hasPath])
       IN  /\ Fits(w)
           /\ heap' = w.heap
           /\ routers' = w.routers
    /\ UNCHANGED <<stack, appMw, phase, ctx, matched, chain, index, frames, ret, trace,
                   result, res, redux, call, inflight, closures>>

\* router.param(param, fn) on router r
Param(r, param, fn) ==
    /\ phase = "setup"
    /\ LET w == RouterParam(World, r, param, fn)
       IN  /\ Fits(w)
           /\ heap' = w.heap
           /\ routers' = w.routers
    /\ UNCHANGED <<stack, appMw, phase, ctx, matched, chain, index, frames, ret, trace,
                   result, res, redux, call, inflight, closures>>

\* router.prefix(prefix) on router r
Prefix(r, prefix) ==
    /\ phase = "setup"
    /\ LET w == RouterPrefix(World, r, prefix)
       IN  /\ Fits(w)
           /\ heap' = w.heap
           /\ routers' = w.routers
    /\ UNCHANGED <<stack, appMw, phase, ctx, matched, chain, index, frames, ret, trace,
                   result, res, redux, call, inflight, closures>>

\* parent.use(path?, sub.routes())
Mount(hasPath, path) ==
    /\ phase = "setup"
    /\ Len(routers["parent"].stack) + Len(routers["sub"].stack) <= MaxLayers + 1
    /\ LET w == UseRouter(World, "parent", "sub", IF hasPath THEN path ELSE <<>>)
       IN  /\ Fits(w)
           /\ heap' = w.heap
           /\ routers' = w.routers
    /\ call' = [NoCall EXCEPT !.op = "mount", !.router = "parent",
                              !.prefix = routers["parent"].prefix
                                            \o (IF hasPath THEN path ELSE <<>>)]
    /\ UNCHANGED <<stack, appMw, phase, ctx, matched, chain, index, frames, ret, trace,
                   result, res, redux, inflight, closures>>

\* router.redirect(source, destination, code) on router r
RouterRedirect(r, source, destination, code) ==
    /\ phase = "setup"
    /\ Len(heap) < MaxLayers
    /\ LET layers == LayersOf(heap, routers, r)
           from   == Resolve(layers, source)
           w      == RouterRegister(World, r, RedirectPath(from), HttpMethods,
                                    <<-(Len(closures) + 1)>>,
                                    [name |-> NoName, end |-> <<>>, ignoreCaptures |-> FALSE])
       IN  /\ Fits(w)
           /\ heap' = w.heap
           /\ routers' = w.routers
           /\ closures' = Append(closures, RedirectHandler(Resolve(layers, destination), code))
    /\ UNCHANGED <<stack, appMw, phase, ctx, matched, chain, index, frames, ret, trace,
                   result, res, redux, call, inflight>>

\* router.url(name, params) on router r
UrlCall(r, name, params) ==
    /\ phase = "setup"
    /\ LET layers == LayersOf(heap, routers, r)
           u      == Url(layers, name, params)
       IN  call' = [op |-> "url", router |-> r, name |-> name, kind |-> u.kind,
                    value |-> u.value, layer |-> Route(layers, name), prefix |-> <<>>]
    /\ UNCHANGED <<stack, appMw, phase, ctx, matched, chain, index, frames, ret, trace,
                   result, res, redux, heap, routers, inflight, closures>>

(***************************************************************************)
(* One request.                                                             *)
(***************************************************************************)
Event(ev, f, info) == [ev |-> ev, pipe |-> f.pipe, i |-> f.i, info |-> info]

\* the request listener of Application.callback, and handleRequest up to the
\* call of the composed middleware
HandleRequest(method, path, status) ==
    /\ phase = "setup"
    /\ phase' = "running"
    /\ ctx' = NewContext(method, path, status)
    /\ LET d == Dispatch(Lists, "app", 1, <<>>, [app |-> 0, router |-> 0])
       IN  /\ frames' = d.frames
           /\ index' = d.index
           /\ ret' = d.ret
    /\ res' = [NewResponse EXCEPT !.listeners = 1]
    /\ UNCHANGED <<stack, appMw, matched, chain, trace, result, redux, heap, routers,
                   call, inflight, closures>>

\* what a handler that ends the request writes
Respond200(c) == [c EXCEPT !.status = 200, !.body = "data"]

\* ctx.respond = false, the null body and an object body JSON.stringify
\* rejects
False == "false"
Null == "null"
Cyclic == "cyclic"

\* what a handler that ends the request leaves in the context: a 200 with a
\* string body, ctx.respond = false, a 204, or a 200 with an object body
Ending == {"end", "bypass", "empty", "object"}
EndContext(c, b) ==
    CASE b = "end"    -> Respond200(c)
      [] b = "bypass" -> [c EXCEPT !.respond = False]
      [] b = "empty"  -> [c EXCEPT !.status = 204]
      [] b = "object" -> [c EXCEPT !.status = 200, !.body = Cyclic]

Continuing == {"pass", "wrap", "observe", "catch", "twice"}
AllBehaviours == Continuing \cup Ending \cup {"throw", "reject"}
RouteBehaviours == {"pass", "end", "throw"}

\* a handler of the application or of a layer starts: it ends the request,
\* fails, or invokes next
EnterUser(behaviours) ==
    /\ phase = "running"
    /\ frames # <<>>
    /\ Top.pc = "pre"
    /\ Top.fn.type \in {"user", "handler"}
    /\ ~IsRedirect(Top.fn)
    /\ \E b \in behaviours :
         IF b \in Continuing
         THEN LET d == Dispatch(Lists, Top.pipe, Top.i + 1, SetTop(frames, b, "wait"), index)
              IN  /\ frames' = d.frames
                  /\ index' = d.index
                  /\ ret' = d.ret
                  /\ ctx' = ctx
                  /\ trace' = trace \o <<Event("enter", Top, b), Event("next", Top, d.ret)>>
         ELSE /\ frames' = Front(frames)
              /\ index' = index
              /\ ret' = IF b \in Ending THEN Ok ELSE Boom
              /\ ctx' = IF b \in Ending THEN EndContext(ctx, b) ELSE ctx
              /\ trace' = Append(trace, Event("enter", Top, b))
    /\ UNCHANGED <<stack, appMw, phase, matched, chain, result, res, redux, heap,
                   routers, call, inflight, closures>>

\* the handler router.redirect registered starts: it redirects, sets the
\* status and returns without invoking next
EnterRedirect ==
    /\ phase = "running"
    /\ frames # <<>>
    /\ Top.pc = "pre"
    /\ IsRedirect(Top.fn)
    /\ ctx' = RedirectContext(ctx, closures[-Top.fn.h])
    /\ frames' = Front(frames)
    /\ ret' = Ok
    /\ trace' = Append(trace, Event("enter", Top, "redirect"))
    /\ UNCHANGED <<stack, appMw, phase, matched, chain, index, result, res, redux, heap,
                   routers, call, inflight, closures>>

\* the completion of next() reaches the handler that invoked it
ResumeUser ==
    /\ phase = "running"
    /\ frames # <<>>
    /\ Top.pc \in {"wait", "wait2"}
    /\ ret # None
    /\ Top.fn.type \in {"user", "handler"}
    /\ IF Top.beh = "twice" /\ Top.pc = "wait" /\ ret = Ok
       THEN LET d == Dispatch(Lists, Top.pipe, Top.i + 1, SetTop(frames, "twice", "wait2"), index)
            IN  /\ frames' = d.frames
                /\ index' = d.index
                /\ ret' = d.ret
                /\ trace' = Append(trace, Event("next2", Top, d.ret))
       ELSE /\ frames' = Front(frames)
            /\ index' = index
            /\ ret' = IF Top.beh = "catch" THEN Ok ELSE ret
            /\ trace' = IF \/ Top.beh \in {"observe", "catch"}
                           \/ Top.beh = "twice" /\ Top.pc = "wait2"
                           \/ Top.beh = "wrap" /\ ret = Ok
                        THEN Append(trace, Event("after", Top, ret))
                        ELSE trace
    /\ UNCHANGED <<stack, appMw, phase, ctx, matched, chain, result, res, redux, heap,
                   routers, call, inflight, closures>>

(***************************************************************************)
(* The router's dispatch (Router.prototype.routes).                         *)
(***************************************************************************)
\* a dispatch that keeps in ctx.matched only the layers that matched the
\* method too
SaveMatchedMethod(c, m) ==
    IF c.matchedSet
    THEN [c EXCEPT !.matched = c.matched \o m.pathAndMethod]
    ELSE [c EXCEPT !.matched = m.pathAndMethod, !.matchedSet = TRUE]

\* ctx.matched: the layers that matched the path, added to those of an
\* earlier router
SaveMatched(c, m) ==
    IF c.matchedSet
    THEN [c EXCEPT !.matched = c.matched \o m.path]
    ELSE [c EXCEPT !.matched = m.path, !.matchedSet = TRUE]

\* the most specific layer gives ctx._matchedRoute and ctx._matchedRouteName
SetMatchedRoute(c, layers, m) ==
    LET mostSpecificLayer == layers[m.pathAndMethod[Len(m.pathAndMethod)]]
        c1 == [c EXCEPT !.matchedRoute = <<mostSpecificLayer.path>>]
    IN  IF mostSpecificLayer.name # NoName
        THEN [c1 EXCEPT !.matchedRouteName = mostSpecificLayer.name]
        ELSE c1

\* a test that dispatches whenever some layer matched path and method
NoLayer(m) == m.pathAndMethod = <<>>

\* is there no route to dispatch to (the router then only calls next)
NoRoute(m) == ~m.route

\* the handler list the router composes for a match
BuildChain(layers, m) == LayerChain(layers, m.pathAndMethod, <<>>)

\* a binding step that does not pass on the params bound so far
BindParamsAfresh(c, layer) ==
    LET captures == LayerCaptures(layer, c.path, c.captures)
    IN  [c EXCEPT !.captures = captures,
                  !.params = LayerParams(layer, c.path, captures, EmptyParams),
                  !.routerName = layer.name]

\* the parameter binding step the chain holds before each layer's handlers
BindParams(c, layer) ==
    LET captures == LayerCaptures(layer, c.path, c.captures)
    IN  [c EXCEPT !.captures = captures,
                  !.params = LayerParams(layer, c.path, captures, c.params),
                  !.routerName = layer.name]

\* dispatch(ctx, next) up to its return next() or return compose(layerChain)(ctx, next)
EnterRoutes ==
    /\ phase = "running"
    /\ frames # <<>>
    /\ Top.pc = "pre"
    /\ Top.fn.type = "routes"
    /\ LET m  == Match(stack, ctx.path, ctx.method)
           c1 == SaveMatched(ctx, m)
           fr == SetTop(frames, "pass", "wait")
       IN  /\ matched' = m
           /\ IF NoRoute(m)
              THEN LET d == Dispatch(Lists, "app", Top.i + 1, fr, index)
                   IN  /\ ctx' = c1
                       /\ chain' = chain
                       /\ frames' = d.frames
                       /\ index' = d.index
                       /\ ret' = d.ret
                       /\ trace' = trace \o <<Event("enter", Top, "routes"),
                                              Event("next", Top, d.ret)>>
              ELSE LET layerChain == BuildChain(stack, m)
                       d == Dispatch([app |-> appMw, router |-> layerChain], "router", 1,
                                     fr, [index EXCEPT !.router = 0])
                   IN  /\ ctx' = SetMatchedRoute(c1, stack, m)
                       /\ chain' = layerChain
                       /\ frames' = d.frames
                       /\ index' = d.index
                       /\ ret' = d.ret
                       /\ trace' = Append(trace, Event("enter", Top, "routes"))
    /\ UNCHANGED <<stack, appMw, phase, result, res, redux, heap, routers, call,
                   inflight, closures>>

\* a parameter binding step of the chain: bind, then return next()
EnterBind ==
    /\ phase = "running"
    /\ frames # <<>>
    /\ Top.pc = "pre"
    /\ Top.fn.type = "bind"
    /\ ctx' = BindParams(ctx, stack[Top.fn.layer])
    /\ LET d == Dispatch(Lists, Top.pipe, Top.i + 1, SetTop(frames, "pass", "wait"), index)
       IN  /\ frames' = d.frames
           /\ index' = d.index
           /\ ret' = d.ret
           /\ trace' = trace \o <<Event("enter", Top, "bind"), Event("next", Top, d.ret)>>
    /\ UNCHANGED <<stack, appMw, phase, matched, chain, result, res, redux, heap,
                   routers, call, inflight, closures>>

\* the completion the router's dispatch or a binding step returned settles
ResumePass ==
    /\ phase = "running"
    /\ frames # <<>>
    /\ Top.pc = "wait"
    /\ ret # None
    /\ Top.fn.type \in {"routes", "bind"}
    /\ frames' = Front(frames)
    /\ UNCHANGED <<stack, appMw, phase, ctx, matched, chain, index, ret, trace, result,
                   res, redux, heap, routers, call, inflight, closures>>

\* allowedMethods(ctx, next) up to its call of next()
EnterAllowed ==
    /\ phase = "running"
    /\ frames # <<>>
    /\ Top.pc = "pre"
    /\ Top.fn.type = "allowed"
    /\ LET d == Dispatch(Lists, Top.pipe, Top.i + 1, SetTop(frames, "then", "wait"), index)
       IN  /\ frames' = d.frames
           /\ index' = d.index
           /\ ret' = d.ret
           /\ trace' = trace \o <<Event("enter", Top, "allowed"), Event("next", Top, d.ret)>>
    /\ UNCHANGED <<stack, appMw, phase, ctx, matched, chain, result, res, redux, heap,
                   routers, call, inflight, closures>>

\* next() settled: the function given to then runs if it resolved
ResumeAllowed ==
    /\ phase = "running"
    /\ frames # <<>>
    /\ Top.pc = "wait"
    /\ ret # None
    /\ Top.fn.type = "allowed"
    /\ frames' = Front(frames)
    /\ IF ret = Ok
       THEN LET a == AllowedPost(ctx, stack, Top.fn.throw)
            IN  /\ ctx' = a.ctx
                /\ ret' = a.ret
                /\ trace' = Append(trace, Event("after", Top, Ok))
       ELSE UNCHANGED <<ctx, ret, trace>>
    /\ UNCHANGED <<stack, appMw, phase, matched, chain, index, result, res, redux,
                   heap, routers, call, inflight, closures>>

(***************************************************************************)
(* respond, and handleRequest once the composed middleware has settled.     *)
(***************************************************************************)
StatusesEmpty == {204, 205, 304}

\* ctx.message || String(code)
Message(code) ==
    CASE code = 200 -> "OK"
      [] code = 204 -> "No Content"
      [] code = 301 -> "Moved Permanently"
      [] code = 302 -> "Found"
      [] code = 404 -> "Not Found"
      [] code = 405 -> "Method Not Allowed"
      [] code = 501 -> "Not Implemented"
      [] OTHER      -> ToString(code)

\* isJSON(body): a body that is neither null, a string, a stream nor a buffer
IsJSON(body) == body = Cyclic
\* JSON.stringify(body) throws
StringifyThrows(body) == body = Cyclic

\* res.end(payload)
End(r, payload) == [r EXCEPT !.ended = @ + 1, !.payload = payload]

\* a respond that writes whatever ctx.respond and ctx.writable say
RespondUnguarded(c, r) ==
    IF c.body \in {Undefined, Null}
    THEN [ctx |-> c, res |-> End(r, Message(c.status)), threw |-> FALSE]
    ELSE [ctx |-> c, res |-> End(r, c.body), threw |-> FALSE]

\* respond(ctx): the context and the response it leaves, and whether it threw
Respond(c, r) ==
    IF c.respond = False
    THEN [ctx |-> c, res |-> r, threw |-> FALSE]
    ELSE IF ~r.writable
    THEN [ctx |-> c, res |-> r, threw |-> FALSE]
    ELSE IF c.status \in StatusesEmpty
    THEN [ctx |-> [c EXCEPT !.body = Null], res |-> End(r, None), threw |-> FALSE]
    ELSE IF c.method = "HEAD"
    THEN IF IsJSON(c.body)
         THEN IF StringifyThrows(c.body)
              THEN [ctx |-> c, res |-> r, threw |-> TRUE]
              ELSE [ctx |-> c, res |-> End([r EXCEPT !.lengthOf = c.body], None),
                    threw |-> FALSE]
         ELSE [ctx |-> c, res |-> End(r, None), threw |-> FALSE]
    ELSE IF c.body \in {Undefined, Null}
    THEN [ctx |-> c,
          res |-> End([r EXCEPT !.type = "text", !.lengthOf = Message(c.status)],
                      Message(c.status)),
          threw |-> FALSE]
    ELSE IF ~IsJSON(c.body)
    THEN [ctx |-> c, res |-> End(r, c.body), threw |-> FALSE]
    ELSE IF StringifyThrows(c.body)
    THEN [ctx |-> c, res |-> r, threw |-> TRUE]
    ELSE [ctx |-> c, res |-> End([r EXCEPT !.lengthOf = c.body], c.body), threw |-> FALSE]

\* handleResponse = () => respond(ctx), called with what ctx.writable says
\* at that moment; a throw of respond rejects the promise .catch is chained on
Responded(c, r, writable) == Respond(c, [r EXCEPT !.writable = writable])

\* a handleRequest that responds however the pipeline settled
HandleResponseAlways ==
    /\ phase = "running"
    /\ frames = <<>>
    /\ ret # None
    /\ result' = "respond"
    /\ \E writable \in BOOLEAN :
          LET d == Responded(ctx, res, writable)
          IN  /\ ctx' = d.ctx
              /\ res' = d.res
              /\ phase' = IF d.threw THEN "threw" ELSE "done"
    /\ UNCHANGED <<stack, appMw, matched, chain, index, frames, ret, trace, redux,
                   heap, routers, call, inflight, closures>>

\* fnMiddleware(ctx).then(handleResponse): respond runs in the job the
\* resolution of the pipeline queued; if it throws, the request waits for
\* the job of .catch
HandleResponse ==
    /\ phase = "running"
    /\ frames = <<>>
    /\ ret = Ok
    /\ result' = "respond"
    /\ \E writable \in BOOLEAN :
          LET d == Responded(ctx, res, writable)
          IN  /\ ctx' = d.ctx
              /\ res' = d.res
              /\ phase' = IF d.threw THEN "threw" ELSE "done"
    /\ UNCHANGED <<stack, appMw, matched, chain, index, frames, ret, trace, redux,
                   heap, routers, call, inflight, closures>>

\* fnMiddleware(ctx). ... .catch(onerror): ctx.onerror is called with the
\* rejection of the pipeline, or with what respond threw, in a job of its own
OnError ==
    /\ \/ /\ phase = "running"
          /\ frames = <<>>
          /\ ret \notin {None, Ok}
          /\ result' = "onerror"
       \/ /\ phase = "threw"
          /\ result' = result
    /\ phase' = "done"
    /\ res' = [res EXCEPT !.onerror = @ + 1, !.caught = @ + 1]
    /\ UNCHANGED <<stack, appMw, ctx, matched, chain, index, frames, ret, trace, redux,
                   heap, routers, call, inflight, closures>>

\* what on-finished can hand its listener: no error, or the error of the
\* socket
SocketError == "socket error"
FinishedErrors == {Null, SocketError}

\* on-finished calls the listener that handleRequest registered, err =>
\* ctx.onerror(err), when the response closes, finishes or fails: at any
\* moment after the registration, written or not
ResponseFinished ==
    /\ res.finished < res.listeners
    /\ \E err \in FinishedErrors :
          res' = [res EXCEPT !.finished = @ + 1, !.onerror = @ + 1, !.finishedWith = err]
    /\ UNCHANGED <<stack, appMw, phase, ctx, matched, chain, index, frames, ret, trace,
                   result, redux, heap, routers, call, inflight, closures>>

(***************************************************************************)
(* One request through the routers parent and sub, both used by the        *)
(* application: app.use(parent.routes()).use(sub.routes()), in either      *)
(* order.  The handlers of the routes call next().                         *)
(***************************************************************************)
\* router.match of router r, each matched layer referred to by its place in
\* the heap
MatchRouter(w, r, path, method) ==
    LET m == Match(LayersOf(w.heap, w.routers, r), path, method)
        ids(s) == [k \in 1..Len(s) |-> w.routers[r].stack[s[k]]]
    IN  [m EXCEPT !.path = ids(m.path), !.pathAndMethod = ids(m.pathAndMethod)]

\* the binding steps of the chain, from the i-th matched layer on
RECURSIVE BindAll(_, _, _, _)
BindAll(c, layers, matchedLayers, i) ==
    IF i > Len(matchedLayers)
    THEN c
    ELSE BindAll(BindParams(c, layers[matchedLayers[i]]), layers, matchedLayers, i + 1)

\* has the dispatch of router r run in this request
Dispatched(r) == \E k \in 1..Len(trace) : trace[k].info = r

\* a request reaches the application: createContext, and handleRequest up
\* to the call of the composed middleware
AppRequest(method, path) ==
    /\ phase = "setup"
    /\ phase' = "running"
    /\ ctx' = NewContext(method, path, 404)
    /\ res' = [NewResponse EXCEPT !.listeners = 1]
    /\ matched' = NoMatch
    /\ trace' = <<>>
    /\ UNCHANGED <<stack, appMw, chain, index, frames, ret, result, redux, heap,
                   routers, call, inflight, closures>>

\* dispatch(ctx, next) of router r: match, ctx.matched, the most specific
\* layer, and the chain, whose handlers call next()
RoutesDispatch(r) ==
    /\ phase = "running"
    /\ ~Dispatched(r)
    /\ LET m  == MatchRouter(World, r, ctx.path, ctx.method)
           c1 == SaveMatched(ctx, m)
       IN  /\ matched' = m
           /\ ctx' = IF NoRoute(m)
                     THEN c1
                     ELSE BindAll(SetMatchedRoute(c1, heap, m), heap, m.pathAndMethod, 1)
    /\ trace' = Append(trace, Event("enter", [pipe |-> "app", i |-> Len(trace) + 1], r))
    /\ UNCHANGED <<stack, appMw, phase, chain, index, frames, ret, result, res, redux,
                   heap, routers, call, inflight, closures>>

(***************************************************************************)
(* Several requests in flight through app.use(parent.routes()).  A request *)
(* is suspended while a handler of a matched layer awaits; the steps of    *)
(* the requests interleave at those points.                                *)
(***************************************************************************)
\* a context made from the context object of another request in flight
CreateContextShared(fl, q, method, path) ==
    LET others == {o \in Requests \ {q} : fl[o].pc # "idle"}
    IN  IF others = {}
        THEN NewContext(method, path, 404)
        ELSE [fl[CHOOSE o \in others : TRUE].ctx EXCEPT !.method = method, !.path = path]

\* Application.createContext for request q, and the 404 handleRequest
\* starts from: a new object for every request
CreateContext(fl, q, method, path) == NewContext(method, path, 404)

\* dispatch(ctx, next) of router r up to the composition of the chain
DispatchContext(w, r, c) ==
    LET m  == MatchRouter(w, r, c.path, c.method)
        c1 == SaveMatched(c, m)
    IN  IF NoRoute(m) THEN c1 ELSE SetMatchedRoute(c1, w.heap, m)

\* the chain goes on: the binding step of the next matched layer runs and
\* the layer's handler suspends, or the chain is at its end
Advance(e, layers) ==
    IF e.todo = <<>>
    THEN [e EXCEPT !.pc = "done"]
    ELSE [e EXCEPT !.pc = "chain",
                   !.ctx = BindParams(e.ctx, layers[Head(e.todo)]),
                   !.todo = Tail(e.todo),
                   !.bound = @ + 1]

\* request q arrives: the request listener creates its context
Arrive(q, method, path) ==
    /\ inflight[q].pc = "idle"
    /\ phase' = "running"
    /\ inflight' = [inflight EXCEPT ![q] =
                      [ pc |-> "dispatch", ctx |-> CreateContext(inflight, q, method, path),
                        todo |-> <<>>, bound |-> 0 ]]
    /\ UNCHANGED <<stack, appMw, ctx, matched, chain, index, frames, ret, trace,
                   result, res, redux, heap, routers, call, closures>>

\* the dispatch of the router runs for request q, up to the first handler
InflightDispatch(q) ==
    /\ inflight[q].pc = "dispatch"
    /\ LET e == inflight[q]
           m == MatchRouter(World, "parent", e.ctx.path, e.ctx.method)
           e1 == [e EXCEPT !.ctx = DispatchContext(World, "parent", e.ctx),
                           !.todo = IF NoRoute(m) THEN <<>> ELSE m.pathAndMethod]
       IN  inflight' = [inflight EXCEPT ![q] = Advance(e1, heap)]
    /\ UNCHANGED <<stack, appMw, phase, ctx, matched, chain, index, frames, ret, trace,
                   result, res, redux, heap, routers, call, closures>>

\* the suspended handler of request q resumes: it calls next() or ends the
\* request
InflightResume(q) ==
    /\ inflight[q].pc = "chain"
    /\ \E b \in {"pass", "end"} :
          inflight' = [inflight EXCEPT ![q] =
                         IF b = "pass"
                         THEN Advance(inflight[q], heap)
                         ELSE [inflight[q] EXCEPT !.pc = "done"]]
    /\ UNCHANGED <<stack, appMw, phase, ctx, matched, chain, index, frames, ret, trace,
                   result, res, redux, heap, routers, call, closures>>

(***************************************************************************)
(* Specifications.                                                          *)
(***************************************************************************)
Next ==
    \/ \E path \in RoutePaths, method \in RouteVerbs, n \in HandlerCounts :
          RegisterVerb(NoName, path, method, n)
    \/ \E hasPath \in BOOLEAN, path \in MountPaths, n \in 1..MaxLayers :
          Use(hasPath, path, n)
    \/ \E code \in RedirectCodes :
          Redirect(TargetPath(<<"x">>), TargetPath(<<"forums", "7", "42">>), code)
    \/ AppUse
    \/ \E method \in RequestMethods, path \in RequestPaths, status \in InitialStatus :
          HandleRequest(method, path, status)
    \/ EnterUser(RouteBehaviours)
    \/ EnterRedirect
    \/ ResumeUser
    \/ EnterRoutes
    \/ EnterBind
    \/ ResumePass
    \/ EnterAllowed
    \/ ResumeAllowed
    \/ HandleResponse
    \/ OnError
    \/ ResponseFinished

Spec == Init /\ [][Next]_vars

ComposeMethods == {"GET", "HEAD"}

NextCompose ==
    \/ AppUse
    \/ \E throw \in BOOLEAN : AppUseAllowed(throw)
    \/ EnterAllowed
    \/ ResumeAllowed
    \/ \E method \in ComposeMethods : HandleRequest(method, <<"x">>, 404)
    \/ EnterUser(AllBehaviours)
    \/ ResumeUser
    \/ HandleResponse
    \/ OnError
    \/ ResponseFinished

SpecCompose == InitCompose /\ [][NextCompose]_vars

\* a store enhanced by applyMiddleware
InitRedux ==
    /\ InitCommon
    /\ appMw = <<>>

NextRedux ==
    \/ \E n \in 0..MaxMiddlewares : ApplyMiddleware(n)
    \/ Construct
    \/ Compose
    \/ Wrap
    \/ Assign
    \/ EnhancedDispatch
    \/ MiddlewareRuns
    \/ MiddlewareReturns

SpecRedux == InitRedux /\ [][NextRedux]_vars

\* two routers being set up, one mounted in the other
InitSetup ==
    /\ InitCommon
    /\ appMw = <<>>

NextSetup ==
    \/ \E r \in Routers, path \in RoutePaths : RouterVerb(r, NoName, path, "GET")
    \/ \E hasPath \in BOOLEAN, path \in MountPaths : RouterUse("sub", hasPath, path)
    \/ \E param \in ParamKeys : Param("parent", param, 1)
    \/ \E prefix \in Prefixes : Prefix("parent", prefix)
    \/ \E hasPath \in BOOLEAN, path \in MountPaths : Mount(hasPath, path)

SpecSetup == InitSetup /\ [][NextSetup]_vars

\* param handlers and the layers they are attached to
NextParam ==
    \/ \E r \in Routers, path \in RoutePaths : RouterVerb(r, NoName, path, "GET")
    \/ \E path \in RoutePaths : RouterAll("parent", NoName, path)
    \/ \E hasPath \in BOOLEAN, path \in UsePaths : RouterUse("parent", hasPath, path)
    \/ \E r \in Routers, param \in ParamKeys, fn \in ParamFns : Param(r, param, fn)
    \/ \E hasPath \in BOOLEAN, path \in MountPaths : Mount(hasPath, path)

SpecParam == InitSetup /\ [][NextParam]_vars

\* named routes of one router and the urls made from them
NextUrl ==
    \/ \E name \in RouteNames, path \in RoutePaths, method \in RouteVerbs :
          RouterVerb("parent", name, path, method)
    \/ \E name \in RouteNames, path \in RoutePaths : RouterAll("parent", name, path)
    \/ \E source \in RedirectSources, destination \in RedirectDestinations,
          code \in RedirectCodes : RouterRedirect("parent", source, destination, code)
    \/ \E name \in UrlNames, params \in UrlParams : UrlCall("parent", name, params)

SpecUrl == InitSetup /\ [][NextUrl]_vars

\* a request that passes through two routers with named and unnamed routes
NamesMethods == {"GET", "POST"}

NextNames ==
    \/ \E r \in Routers, name \in RouteNames, path \in RoutePaths :
          RouterVerb(r, name, path, "GET")
    \/ \E method \in NamesMethods, path \in RequestPaths : AppRequest(method, path)
    \/ \E r \in Routers : RoutesDispatch(r)

SpecNames == InitSetup /\ [][NextNames]_vars

\* a router is set up, then requests arrive and run interleaved
IsolationNames == {NoName, "user"}

NextIsolation ==
    \/ \E name \in IsolationNames, path \in RoutePaths : RouterVerb("parent", name, path, "GET")
    \/ \E hasPath \in BOOLEAN, path \in MountPaths : RouterUse("parent", hasPath, path)
    \/ \E param \in ParamKeys : Param("parent", param, 1)
    \/ \E q \in Requests, method \in NamesMethods, path \in RequestPaths :
          Arrive(q, method, path)
    \/ \E q \in Requests : InflightDispatch(q)
    \/ \E q \in Requests : InflightResume(q)

SpecIsolation == InitSetup /\ [][NextIsolation]_vars

(***************************************************************************)
(* Properties.                                                              *)
(***************************************************************************)
Increasing(s) == \A a, b \in 1..Len(s) : a < b => s[a] < s[b]
AcceptsMethod(layer, method) ==
    Len(layer.methods) = 0 \/ \E k \in 1..Len(layer.methods) : layer.methods[k] = method
PathLayers == { i \in 1..Len(stack) : LayerMatch(stack[i], ctx.path) }
PathAndMethodLayers == { i \in PathLayers : AcceptsMethod(stack[i], ctx.method) }

\* C1: once the router's dispatch has called match, matched.path is exactly the
\* layers whose pattern accepts the path, in registration order,
\* matched.pathAndMethod exactly those of them whose method set is empty or
\* holds the request method, in the same order, and matched.route is true
\* exactly when one of the latter declares a method.
C1_MatchResult ==
    ctx.matchedSet =>
        /\ Increasing(matched.path)
        /\ SeqToSet(matched.path) = PathLayers
        /\ Increasing(matched.pathAndMethod)
        /\ SeqToSet(matched.pathAndMethod) = PathAndMethodLayers
        /\ matched.route <=> (\E i \in PathAndMethodLayers : Len(stack[i].methods) > 0)

\* a match in which a layer is dropped for its method and a route is found
C1_Witness ==
    /\ ctx.matchedSet
    /\ Len(matched.path) = 2
    /\ Len(matched.pathAndMethod) = 1
    /\ matched.route

\* the events of the handlers of the router's chain that have started
RouterEnters == SelectSeq(trace, LAMBDA e : e.ev = "enter" /\ e.pipe = "router")

\* where in the chain the r-th matched layer begins
ChainOffset[r \in 1..(Len(matched.pathAndMethod) + 1)] ==
    IF r = 1 THEN 0
    ELSE ChainOffset[r - 1] + 1 + Len(stack[matched.pathAndMethod[r - 1]].stack)

\* the chain is, layer by layer in the order of pathAndMethod, the layer's
\* binding step and right after it the layer's handlers in their order
ChainInOrder ==
    LET pm == matched.pathAndMethod
    IN  /\ Len(chain) = ChainOffset[Len(pm) + 1]
        /\ \A r \in 1..Len(pm) :
             /\ chain[ChainOffset[r] + 1].type = "bind"
             /\ chain[ChainOffset[r] + 1].layer = pm[r]
             /\ \A j \in 1..Len(stack[pm[r]].stack) :
                  /\ chain[ChainOffset[r] + 1 + j].type = "handler"
                  /\ chain[ChainOffset[r] + 1 + j].layer = pm[r]
                  /\ chain[ChainOffset[r] + 1 + j].h = stack[pm[r]].stack[j]

\* C2: for a request that finds a route the chain the dispatch runs is, in
\* registration order of the layers of pathAndMethod, each layer's binding
\* step and right after it that layer's handlers; the chain's steps start in
\* chain order from the first one, so no handler of a later registered layer
\* starts before a handler of an earlier registered one; and a step that
\* continues is followed by the next step of the chain.
C2_ChainOrder ==
    (ctx.matchedSet /\ matched.route) =>
        /\ Increasing(matched.pathAndMethod)
        /\ ChainInOrder
        /\ \A k \in 1..Len(RouterEnters) : RouterEnters[k].i = k
        /\ \A a, b \in 1..Len(RouterEnters) :
             a < b => chain[RouterEnters[a].i].layer <= chain[RouterEnters[b].i].layer
        /\ \A k \in 1..Len(RouterEnters) :
             (RouterEnters[k].info \in {"bind", "pass"} /\ k < Len(chain)) =>
                 \/ Len(RouterEnters) > k
                 \/ Top.pipe = "router" /\ Top.i = k + 1 /\ Top.pc = "pre"

\* a mount and a route after it both matched, all their handlers continued
C2_Witness ==
    /\ phase = "done"
    /\ matched.route
    /\ Len(matched.pathAndMethod) = 2
    /\ Len(stack[matched.pathAndMethod[1]].methods) = 0
    /\ Len(stack[matched.pathAndMethod[2]].stack) = 2
    /\ Len(RouterEnters) = Len(chain)
    /\ Len(chain) = 5

\* the behaviour the handler of an event chose when it started
BehaviourOf(e) ==
    LET k == CHOOSE k \in 1..Len(trace) :
                 trace[k].ev = "enter" /\ trace[k].pipe = e.pipe /\ trace[k].i = e.i
    IN  trace[k].info

\* C3: in the application's composed pipeline the first handler starts first
\* and handler i+1 starts only as handler i invokes continue; the code a
\* handler that invokes continue once runs after it runs when the downstream
\* chain has settled, with every downstream handler behind it and none still
\* entered; and the handlers start in list order.
C3_OnionOrder ==
    /\ \A k \in 1..Len(trace) :
         trace[k].ev = "enter" =>
            IF trace[k].i = 1
            THEN k = 1
            ELSE /\ k > 1
                 /\ trace[k - 1].ev = "next"
                 /\ trace[k - 1].pipe = trace[k].pipe
                 /\ trace[k - 1].i = trace[k].i - 1
    /\ \A k \in 1..Len(trace) :
         (trace[k].ev = "after" /\ BehaviourOf(trace[k]) # "twice") =>
            /\ trace[k].info # None
            /\ \A q \in 1..Len(trace) : q > k => trace[q].i < trace[k].i
            /\ k = Len(trace) => \A f \in 1..Len(frames) : frames[f].i < trace[k].i
    /\ \A k, q \in 1..Len(trace) :
         (k < q /\ trace[k].ev = "enter" /\ trace[q].ev = "enter") => trace[k].i < trace[q].i

\* three handlers ran; the first ran its code after continue once the third
\* had started and completed
C3_Witness ==
    /\ phase = "done"
    /\ \E k, q \in 1..Len(trace) :
         /\ k < q
         /\ trace[k].ev = "enter" /\ trace[k].i = 3
         /\ trace[q].ev = "after" /\ trace[q].i = 1
         /\ BehaviourOf(trace[q]) = "wrap"

Raises(e) == e.ev = "enter" /\ e.info \in {"throw", "reject"}
HasRaised == \E k \in 1..Len(trace) : Raises(trace[k])
\* the position in the pipeline of the handler that raised
RaisedAt == trace[CHOOSE k \in 1..Len(trace) : Raises(trace[k])].i
\* is there a handler that catches between handler j and the one that raised
CaughtBelow(j) ==
    \E k \in 1..Len(trace) :
        /\ trace[k].ev = "enter" /\ trace[k].info = "catch"
        /\ j < trace[k].i /\ trace[k].i < RaisedAt

\* C4: when a handler of the pipeline raises a failure, synchronously or not,
\* no handler after it is ever started; every upstream handler that observes
\* the completion of its continue, with no catching handler in between, sees
\* that failure; and unless an upstream handler catches it the pipeline's
\* caller gets that failure: handleRequest ends in its error handler, every
\* observing handler having run its code after continue.
C4_ErrorPropagation ==
    HasRaised =>
        /\ \A k \in 1..Len(trace) : trace[k].ev = "enter" => trace[k].i <= RaisedAt
        /\ \A k \in 1..Len(trace) :
             (/\ trace[k].ev = "after"
              /\ BehaviourOf(trace[k]) \in {"observe", "catch"}
              /\ ~CaughtBelow(trace[k].i)) => trace[k].info = Boom
        /\ (phase = "done" /\ ~CaughtBelow(0)) =>
             /\ result = "onerror"
             /\ ret = Boom
             /\ \A k \in 1..Len(trace) :
                  (trace[k].ev = "enter" /\ trace[k].info = "observe") =>
                      \E q \in 1..Len(trace) :
                          /\ q > k
                          /\ trace[q].ev = "after"
                          /\ trace[q].i = trace[k].i
                          /\ trace[q].info = Boom

\* the pipeline [a, b, c]: a observes its continue, b raises
C4_Witness ==
    /\ phase = "done"
    /\ Len(appMw) = 3
    /\ Len(trace) = 4
    /\ trace[1].info = "observe"
    /\ trace[3].i = 2 /\ Raises(trace[3])
    /\ trace[4].ev = "after" /\ trace[4].i = 1 /\ trace[4].info = Boom
    /\ result = "onerror"

\* C5: the second continue of one handler invocation completes at once with
\* the MultipleNext failure, which is the completion the handler then has;
\* no handler is started by it or after it, and it leaves the pipeline's
\* index alone, so no handler of the pipeline is ever started twice.
C5_SecondNextFails ==
    /\ \A k \in 1..Len(trace) :
         trace[k].ev = "next2" =>
            /\ trace[k].info = MultipleNext
            /\ \A q \in 1..Len(trace) : q > k => trace[q].ev # "enter"
            /\ \A q \in 1..Len(trace) :
                 (q > k /\ trace[q].ev = "after" /\ trace[q].i = trace[k].i) =>
                     trace[q].info = MultipleNext
            /\ k = Len(trace) => (ret = MultipleNext /\ Top.i = trace[k].i /\ Top.pc = "wait2")
    /\ \A k, q \in 1..Len(trace) :
         (/\ trace[k].ev = "enter" /\ trace[q].ev = "enter"
          /\ trace[k].pipe = trace[q].pipe /\ trace[k].i = trace[q].i) => k = q

\* the first of three handlers invoked continue twice, the other two having
\* run in between, and the request failed with the MultipleNext failure
C5_Witness ==
    /\ phase = "done"
    /\ result = "onerror"
    /\ ret = MultipleNext
    /\ \E k, q \in 1..Len(trace) :
         /\ k < q
         /\ trace[k].ev = "enter" /\ trace[k].i = 3
         /\ trace[q].ev = "next2" /\ trace[q].i = 1

\* the events of one kind that the handler at position i of a pipeline logged
EventsOf(ev, pipe, i) ==
    { k \in 1..Len(trace) : trace[k].ev = ev /\ trace[k].pipe = pipe /\ trace[k].i = i }

\* C6: when match reports no route the router's dispatch invokes the outer
\* next once, which runs the next middleware; it builds no chain, runs no
\* binding step and no layer handler, writes neither params, captures nor the
\* matched route; and it raises nothing: a failure of the request is one the
\* downstream middleware raised.
C6_NoRouteFallsThrough ==
    (ctx.matchedSet /\ ~matched.route) =>
        /\ Cardinality(EventsOf("next", "app", 1)) = 1
        /\ \A k \in EventsOf("next", "app", 1) : trace[k].info # MultipleNext
        /\ index.app >= 2
        /\ \/ EventsOf("enter", "app", 2) # {}
           \/ Top.pipe = "app" /\ Top.i = 2 /\ Top.pc = "pre"
        /\ chain = <<>>
        /\ \A k \in 1..Len(trace) : trace[k].pipe # "router"
        /\ \A f \in 1..Len(frames) : frames[f].pipe # "router"
        /\ ctx.params = EmptyParams /\ ctx.captures = <<>> /\ ctx.matchedRoute = <<>>
        /\ (phase = "done" /\ result = "onerror") =>
              \/ ret = Boom /\ \E k \in 1..Len(trace) : Raises(trace[k]) /\ trace[k].i > 2
              \/ ret \in {NotImplemented, MethodNotAllowed} /\ appMw[2].throw

\* only a middleware layer of use matched: no route, the request is answered
C6_Witness ==
    /\ phase = "done"
    /\ ~matched.route
    /\ Len(matched.pathAndMethod) = 1
    /\ Len(matched.path) = 2
    /\ result = "respond"

\* the layers whose binding step has run
BoundLayers ==
    { chain[trace[k].i].layer :
        k \in { k \in 1..Len(trace) : /\ trace[k].ev = "enter" /\ trace[k].pipe = "router"
                                      /\ trace[k].info = "bind" } }
Declares(l, name) == \E p \in 1..Len(stack[l].path) : stack[l].path[p] = Par(name)
\* the value the request path holds where layer l declares the parameter
ValueAt(l, name) ==
    Decode(ctx.path[CHOOSE p \in 1..Len(stack[l].path) : stack[l].path[p] = Par(name)])

\* C7: at every point of the chain ctx.params holds exactly the parameters
\* declared by the layers whose binding step has run, each with the decoded
\* value of the path where the last such layer declares it: a binding step
\* removes no key and changes no key the layer does not declare.
C7_ParamsThreading ==
    (ctx.matchedSet /\ matched.route) =>
        /\ DOMAIN ctx.params = { n \in {"fid", "pid"} : \E l \in BoundLayers : Declares(l, n) }
        /\ \A n \in DOMAIN ctx.params :
             \E l \in BoundLayers :
                /\ Declares(l, n)
                /\ \A l2 \in BoundLayers : Declares(l2, n) => l2 <= l
                /\ ctx.params[n] = ValueAt(l, n)

\* the route with both parameters bound first, then a mount that declares fid
\* alone: both keys are there at the end
C7_Witness ==
    /\ phase = "done"
    /\ Len(matched.pathAndMethod) = 2
    /\ BoundLayers = {1, 2}
    /\ stack[1].paramNames = <<"fid", "pid">>
    /\ stack[2].paramNames = <<"fid">>
    /\ ctx.params = [n \in {"fid", "pid"} |-> IF n = "fid" THEN "7" ELSE "42"]

\* downstream of allowedMethods has resolved: its then callback is the next
\* step of the pipeline
AllowedRuns ==
    /\ phase = "running"
    /\ frames # <<>>
    /\ Top.fn.type = "allowed"
    /\ Top.pc = "wait"
    /\ ret = Ok
\* the methods declared by the layers that matched the request path
KnownMethods == UNION { SeqToSet(stack[l].methods) : l \in PathLayers }
NoDuplicates(s) == \A a, b \in 1..Len(s) : s[a] = s[b] => a = b
\* the Allow header names exactly the known methods
AllowIsKnown(c) == c.allowSet /\ SeqToSet(c.allow) = KnownMethods /\ NoDuplicates(c.allow)
StatusOpen == ctx.status = Unset \/ ctx.status = 404

\* C8: when downstream has completed with the status unset or 404, the
\* method is OPTIONS and a layer that matched the path declares a method, the
\* step in which the allowed-methods handler runs its then callback sets
\* status 200, the empty body and Allow to the union of the methods of the
\* layers that matched the path, and resolves.
C8_Options ==
    [][ (/\ AllowedRuns /\ ResumeAllowed
         /\ StatusOpen /\ ctx.method = "OPTIONS" /\ KnownMethods # {}) =>
            /\ ctx'.status = 200
            /\ ctx'.body = ""
            /\ AllowIsKnown(ctx')
            /\ ret' = Ok ]_vars

\* OPTIONS on a path two routes of different verbs are registered at
C8_Witness ==
    /\ phase = "done"
    /\ ctx.method = "OPTIONS"
    /\ ctx.status = 200
    /\ ctx.body = ""
    /\ ctx.allowSet
    /\ ctx.allow = <<"GET", "POST">>
    /\ result = "respond"

\* C9: when downstream has completed with the status unset or 404, throw is
\* not configured, the method is implemented and not OPTIONS and a layer that
\* matched the path declares a method: if the method is none of the methods
\* of the layers that matched the path the step in which the handler runs
\* its then callback sets status 405 and Allow to their union and leaves the
\* rest of the context alone; if it is one of them that step changes nothing.
C9_MethodNotAllowed ==
    [][ (/\ AllowedRuns /\ ResumeAllowed /\ StatusOpen /\ ~Top.fn.throw
         /\ ctx.method \in SeqToSet(Implemented) /\ ctx.method # "OPTIONS"
         /\ KnownMethods # {}) =>
            IF ctx.method \notin KnownMethods
            THEN /\ ctx'.status = 405
                 /\ AllowIsKnown(ctx')
                 /\ ctx' = [ctx EXCEPT !.status = 405, !.allowSet = TRUE, !.allow = ctx'.allow]
                 /\ ret' = Ok
            ELSE /\ ctx' = ctx
                 /\ ret' = Ok ]_vars

\* DELETE on a path only a GET route is registered at
C9_Witness ==
    /\ phase = "done"
    /\ ctx.method = "DELETE"
    /\ ctx.status = 405
    /\ ctx.allow = <<"GET">>
    /\ ctx.body = Undefined
    /\ ~appMw[2].throw
    /\ result = "respond"

\* C10: when downstream has completed with the status unset or 404, throw is
\* not configured and the router does not implement the method, the step in
\* which the handler runs its then callback sets status 501 and the Allow
\* header, whether or not a layer matched the path, and leaves the rest of
\* the context alone.
C10_NotImplemented ==
    [][ (/\ AllowedRuns /\ ResumeAllowed /\ StatusOpen /\ ~Top.fn.throw
         /\ ctx.method \notin SeqToSet(Implemented)) =>
            /\ ctx'.status = 501
            /\ AllowIsKnown(ctx')
            /\ ctx' = [ctx EXCEPT !.status = 501, !.allowSet = TRUE, !.allow = ctx'.allow]
            /\ ret' = Ok ]_vars

\* TRACE on a path a GET route is registered at
C10_Witness ==
    /\ phase = "done"
    /\ ctx.method = "TRACE"
    /\ ctx.status = 501
    /\ ctx.allowSet
    /\ ctx.allow = <<"GET">>
    /\ ~appMw[2].throw
    /\ result = "respond"

\* the three outcomes of the allowed-methods handler
OutcomeNotImplemented == ctx.method \notin SeqToSet(Implemented)
OutcomeOptions ==
    ctx.method \in SeqToSet(Implemented) /\ KnownMethods # {} /\ ctx.method = "OPTIONS"
OutcomeNotAllowed ==
    /\ ctx.method \in SeqToSet(Implemented)
    /\ KnownMethods # {}
    /\ ctx.method # "OPTIONS"
    /\ ctx.method \notin KnownMethods

\* C11 as stated: with throw configured, each of the three outcomes (200 for
\* OPTIONS, 501, 405) is replaced by a raised failure, and the handler writes
\* no status, body or Allow header, in the step that runs its then callback.
C11_AllOutcomesRaise ==
    [][ (/\ AllowedRuns /\ ResumeAllowed /\ StatusOpen /\ Top.fn.throw
         /\ (OutcomeNotImplemented \/ OutcomeOptions \/ OutcomeNotAllowed)) =>
            /\ ctx' = ctx
            /\ ret' \in {NotImplemented, MethodNotAllowed} ]_vars

\* C11: with throw configured, in the step that runs the then callback of the
\* handler the 501 and the 405 outcome are each replaced by a raised failure
\* (not implemented, method not allowed) and the handler then writes no
\* status, body or Allow header; the OPTIONS outcome is not replaced: it
\* still sets 200, the empty body and Allow, and resolves.
C11_ThrowOutcomes ==
    [][ (AllowedRuns /\ ResumeAllowed /\ StatusOpen /\ Top.fn.throw) =>
            /\ OutcomeNotImplemented => (ctx' = ctx /\ ret' = NotImplemented)
            /\ OutcomeNotAllowed => (ctx' = ctx /\ ret' = MethodNotAllowed)
            /\ OutcomeOptions =>
                  /\ ctx' = [ctx EXCEPT !.status = 200, !.body = "", !.allowSet = TRUE,
                                        !.allow = ctx'.allow]
                  /\ AllowIsKnown(ctx')
                  /\ ret' = Ok ]_vars

\* DELETE on a path only other verbs are registered at, throw configured:
\* the failure reached the error handler and nothing was written
C11_Witness ==
    /\ phase = "done"
    /\ appMw[2].throw
    /\ ctx.method = "DELETE"
    /\ PathLayers # {}
    /\ ret = MethodNotAllowed
    /\ result = "onerror"
    /\ StatusOpen
    /\ ctx.body = Undefined
    /\ ~ctx.allowSet

\* downstream of allowedMethods has settled, either way
AllowedSettled ==
    /\ phase = "running"
    /\ frames # <<>>
    /\ Top.fn.type = "allowed"
    /\ Top.pc = "wait"
    /\ ret # None

\* C18: the allowed-methods handler changes the context only in its
\* post-step: when downstream rejected, the post-step does not run and the
\* rejection passes on unchanged; when downstream resolved with a status
\* other than unset or 404, or when no layer that matched the path declares
\* a method and the method is implemented, it changes nothing and resolves.
C18_AllowedFrame ==
    [][ /\ (phase = "running" /\ frames # <<>> /\ Top.fn.type = "allowed" /\ Top.pc = "pre")
            => ctx' = ctx
        /\ AllowedSettled =>
            /\ ret # Ok => (ctx' = ctx /\ ret' = ret /\ trace' = trace)
            /\ (ret = Ok /\ ~StatusOpen) => (ctx' = ctx /\ ret' = Ok)
            /\ (ret = Ok /\ KnownMethods = {} /\ ctx.method \in SeqToSet(Implemented))
                  => (ctx' = ctx /\ ret' = Ok) ]_vars

\* DELETE on a path only other verbs are registered at, answered 200 by a
\* handler downstream of allowedMethods: no 405 and no Allow header
C18_Witness ==
    /\ phase = "done"
    /\ Len(appMw) = 3
    /\ ctx.method = "DELETE"
    /\ KnownMethods # {}
    /\ ctx.status = 200
    /\ ctx.body = "data"
    /\ ~ctx.allowSet
    /\ EventsOf("after", "app", 2) # {}
    /\ result = "respond"

\* C12 as stated: every request that has been answered saw exactly one of a
\* response write by respond (when the pipeline resolved) and an invocation
\* of the error handler by the dispatcher (when it rejected).
C12_ExactlyOne ==
    phase = "done" =>
        /\ res.ended + res.caught = 1
        /\ ret = Ok => res.ended = 1

\* C12: respond writes only after the pipeline has resolved and never more
\* than once. When the pipeline resolves, respond runs once and writes the
\* response exactly once, unless ctx.respond is false, the response is not
\* writable or serialising the body fails, when it writes nothing; the
\* dispatcher then passes the failure of the serialisation to the error
\* handler, once, in a later job, and invokes it for nothing else. When the
\* pipeline rejects, the dispatcher invokes the error handler once and
\* respond writes nothing. Apart from the dispatcher, only the listener
\* registered with onFinished calls the error handler: at most once, at any
\* moment after handleRequest registered it, before a write or without
\* one, with what on-finished reports.
C12_OneWrite ==
    /\ res.ended <= 1
    /\ res.caught <= 1
    /\ res.ended + res.caught <= 1
    /\ res.listeners <= 1
    /\ res.finished <= res.listeners
    /\ res.onerror = res.caught + res.finished
    /\ phase \notin {"done", "threw"} => (res.ended = 0 /\ res.caught = 0)
    /\ phase = "threw" =>
          /\ ret = Ok
          /\ result = "respond"
          /\ res.ended = 0
          /\ res.caught = 0
          /\ StringifyThrows(ctx.body)
    /\ (phase = "done" /\ ret = Ok) =>
          /\ result = "respond"
          /\ res.ended = 1 <=>
                /\ ctx.respond # False
                /\ res.writable
                /\ ~(ctx.status \notin StatusesEmpty /\ StringifyThrows(ctx.body))
          /\ res.caught = 1 <=>
                /\ ctx.respond # False
                /\ res.writable
                /\ ctx.status \notin StatusesEmpty
                /\ StringifyThrows(ctx.body)
    /\ (phase = "done" /\ ret # Ok) =>
          /\ result = "onerror"
          /\ res.ended = 0
          /\ res.caught = 1

\* a pipeline of three handlers resolved and respond wrote the body the last
\* of them set, once; the response finished and the listener passed no
\* error to ctx.onerror
C12_Witness ==
    /\ phase = "done"
    /\ Len(appMw) = 3
    /\ ret = Ok
    /\ ctx.method = "GET"
    /\ ctx.body = "data"
    /\ res.ended = 1
    /\ res.payload = "data"
    /\ res.caught = 0
    /\ res.finished = 1
    /\ res.finishedWith = Null
    /\ res.onerror = 1
    /\ EventsOf("enter", "app", 3) # {}

ReduxCalls(stages) ==
    { j \in 1..Len(redux.log) : redux.log[j].ev = "call" /\ redux.log[j].stage \in stages }

\* C13: a call of the dispatch of the middleware API made while the
\* middlewares are constructed or composed throws and reaches neither
\* store.dispatch nor a middleware; a call made after construction enters
\* the composed chain at its first middleware (store.dispatch when there is
\* none).
C13_NoPartialPipeline ==
    /\ redux.pc \in {"map", "compose"} => redux.dispatch = "thrower"
    /\ redux.pc = "built" => redux.dispatch = "composed"
    /\ \A j \in 1..Len(redux.log) :
          /\ redux.log[j].ev \in {"store", "enter", "exit"} => redux.log[j].stage = "built"
          /\ j \in ReduxCalls({"map", "compose"}) =>
                /\ j < Len(redux.log)
                /\ redux.log[j + 1] = ReduxEvent("threw", redux.log[j].i, redux.log[j].stage)
          /\ j \in ReduxCalls({"built"}) =>
                /\ j < Len(redux.log)
                /\ redux.log[j + 1] =
                      ReduxEvent(IF redux.n = 0 THEN "store" ELSE "enter", 1, "built")

\* two middlewares: one dispatched while it was constructed and one while
\* the chain was composed, both caught the failure; a later dispatch from
\* inside the second middleware went through the whole chain
C13_Witness ==
    /\ redux.pc = "built"
    /\ redux.n = 2
    /\ \E j \in ReduxCalls({"map"}) : redux.log[j + 1].ev = "threw"
    /\ \E j \in ReduxCalls({"compose"}) : redux.log[j + 1].ev = "threw"
    /\ \E j \in ReduxCalls({"built"}) :
          /\ redux.log[j].i = 2
          /\ redux.log[j + 1] = ReduxEvent("enter", 1, "built")
    /\ redux.calls = <<>>

\* the layers of router r that carry the name
Named(r, name) ==
    { i \in 1..Len(routers[r].stack) :
        heap[routers[r].stack[i]].name # NoName /\ heap[routers[r].stack[i]].name = name }
\* a call of parent.url returns in this step
UrlReturns == call' # call /\ call'.op = "url" /\ call'.router = "parent"

\* C14: url called with a name no layer of the stack carries returns an
\* error value that describes the missing name, it does not throw, and the
\* stack, the layers and the param handlers of the router are as before.
C14_UnknownName ==
    [][ (UrlReturns /\ Named("parent", call'.name) = {}) =>
            /\ call'.kind = "error"
            /\ call'.value = <<"No route found for name", call'.name>>
            /\ call'.layer = 0
            /\ routers' = routers
            /\ heap' = heap ]_vars

\* url of a name that was never registered, on a router of two routes
C14_Witness ==
    /\ call.op = "url"
    /\ call.name = "admin"
    /\ call.kind = "error"
    /\ Len(routers["parent"].stack) = 2
    /\ Named("parent", "user") # {}
    /\ Named("parent", "admin") = {}

\* the earliest registered layer of router r that carries the name
FirstNamed(r, name) == CHOOSE i \in Named(r, name) : \A j \in Named(r, name) : i <= j

\* C20: url of a name that layers of the stack carry returns what the url of
\* the earliest registered of them returns, whatever was registered under
\* the name later; and while the router has room a route can be registered
\* under any name, one already in use included.
C20_FirstNameWins ==
    [][ /\ (UrlReturns /\ Named("parent", call'.name) # {}) =>
              LET first == heap[routers["parent"].stack[FirstNamed("parent", call'.name)]]
              IN  /\ call'.layer = FirstNamed("parent", call'.name)
                  /\ \E params \in UrlParams :
                        /\ call'.kind = LayerUrl(first, params).kind
                        /\ call'.value = LayerUrl(first, params).value
        /\ (phase = "setup" /\ Len(heap) < MaxLayers) =>
              \A name \in RouteNames, path \in RoutePaths :
                 ENABLED RouterVerb("parent", name, path, "GET") ]_vars

\* two routes registered under one name at different paths: url gives the
\* path of the first
C20_Witness ==
    /\ Len(routers["parent"].stack) = 2
    /\ Named("parent", "user") = {1, 2}
    /\ heap[1].path = <<Lit("forums"), Par("fid"), Par("pid")>>
    /\ heap[2].path = <<Lit("x")>>
    /\ call.op = "url"
    /\ call.name = "user"
    /\ call.layer = 1
    /\ call.kind = "string"
    /\ call.value = <<"forums", "3", "9">>

\* the layers of router r that declare a parameter run the handler the
\* router stores for it
Covered(r) ==
    \A i \in 1..Len(routers[r].stack), k \in 1..Len(routers[r].params) :
       LET layer == heap[routers[r].stack[i]]
           p     == routers[r].params[k]
       IN  p.param \in SeqToSet(layer.paramNames) => p \in SeqToSet(layer.paramStack)

\* C15: after any sequence of registrations on a router (verb methods, all,
\* use of a middleware, use of a sub-router) and of param calls, in any
\* order, every layer of its stack that declares a parameter the router
\* stores a handler for has that handler attached; a layer that does not
\* declare the parameter has nothing attached for it.
C15_ParamCoverage ==
    /\ Covered("parent")
    /\ \A i \in 1..Len(heap) :
          \A k \in 1..Len(heap[i].paramStack) :
             heap[i].paramStack[k].param \in SeqToSet(heap[i].paramNames)

\* a route registered before two param calls for its parameter and a route
\* registered after them: the first got both handlers in turn, the second
\* the stored one
C15_Witness ==
    /\ routers["parent"].stack = <<1, 2>>
    /\ routers["parent"].params = <<[param |-> "fid", fn |-> 2]>>
    /\ heap[1].paramStack = <<[param |-> "fid", fn |-> 2], [param |-> "fid", fn |-> 1]>>
    /\ heap[2].paramStack = <<[param |-> "fid", fn |-> 2]>>

\* the layers of the sub-router that the parent holds already
MountedBefore ==
    { id \in SeqToSet(routers["sub"].stack) : id \in SeqToSet(routers["parent"].stack) }
\* the sub-router is mounted in this step under the prefix the last mount
\* gave its layers
MountsAgain ==
    \E hasPath \in BOOLEAN, path \in MountPaths :
       /\ Mount(hasPath, path)
       /\ call.op = "mount"
       /\ call.prefix # <<>>
       /\ call'.prefix = call.prefix

\* C16: applying a prefix again to layers that carry it changes no pattern:
\* neither a call of prefix with the prefix the router has already, nor a
\* second mount of the sub-router at the same place, prepends anything to a
\* layer that the first one prefixed.
C16_PrefixIdempotent ==
    [][ /\ routers' = routers => \A id \in 1..Len(heap) : heap'[id].path = heap[id].path
        /\ MountsAgain => \A id \in MountedBefore : heap'[id].path = heap[id].path ]_vars

\* C17: parent.use(mountPath, sub.routes()) appends the references of the
\* layers of the sub-router to the stack of the parent, after those it
\* holds and in the order of the sub-router, creating no layer; each of
\* these layers gets the pattern parentPrefix + mountPath + its previous
\* pattern and no other layer changes; and every param handler of the
\* parent is stored on the sub-router and attached to its layers.
C17_Mount ==
    [][ \A hasPath \in BOOLEAN, path \in MountPaths :
          Mount(hasPath, path) =>
            LET P  == routers["parent"]
                S  == routers["sub"]
                mp == IF hasPath THEN path ELSE <<>>
            IN  /\ routers'["parent"].stack = P.stack \o S.stack
                /\ routers'["sub"].stack = S.stack
                /\ routers'["parent"].prefix = P.prefix
                /\ routers'["parent"].params = P.params
                /\ Len(heap') = Len(heap)
                /\ \A id \in 1..Len(heap) :
                      heap'[id].path =
                         IF id \in SeqToSet(S.stack)
                         THEN P.prefix \o mp \o heap[id].path
                         ELSE heap[id].path
                /\ \A k \in 1..Len(P.params) :
                      /\ P.params[k] \in SeqToSet(routers'["sub"].params)
                      /\ \A id \in SeqToSet(S.stack) :
                            P.params[k].param \in SeqToSet(heap'[id].paramNames)
                               => P.params[k] \in SeqToSet(heap'[id].paramStack) ]_vars

\* a parent of prefix /api with a route and a param handler of its own,
\* after the sub-router of one route was mounted at /forums/:fid
C17_Witness ==
    /\ routers["parent"].prefix = <<Lit("api")>>
    /\ routers["parent"].params = <<[param |-> "fid", fn |-> 1]>>
    /\ routers["parent"].stack = <<1, 2>>
    /\ routers["sub"].stack = <<2>>
    /\ routers["sub"].params = <<[param |-> "fid", fn |-> 1]>>
    /\ heap[1].path = <<Lit("api"), Lit("x")>>
    /\ heap[2].path = <<Lit("api"), Lit("forums"), Par("fid"), Lit("x")>>
    /\ heap[2].paramStack = <<[param |-> "fid", fn |-> 1]>>

\* the name the context reports; a layer without a name has the name null
\* and a context no name was written to has undefined
MatchedRouteName(c) == IF c.matchedRouteName = Undefined THEN NoName ELSE c.matchedRouteName

\* the most specific layer of router r for the request
MostSpecific(r) ==
    LET m == MatchRouter(World, r, ctx.path, ctx.method)
    IN  heap[m.pathAndMethod[Len(m.pathAndMethod)]]

\* C19: after a dispatch that finds a route, ctx._matchedRoute is the
\* pattern of the last layer of pathAndMethod and ctx._matchedRouteName is
\* the name of that layer (no name, when the layer has none), whatever an
\* earlier router of the request left in these fields
C19_MostSpecificLayer ==
    [][ \A r \in Routers :
          RoutesDispatch(r) /\ MatchRouter(World, r, ctx.path, ctx.method).route
          => /\ ctx'.matchedRoute = <<MostSpecific(r).path>>
             /\ MatchedRouteName(ctx') = MostSpecific(r).name ]_vars

\* what the log holds of the time after applyMiddleware returned
BuiltLog == SelectSeq(redux.log, LAMBDA e : e.stage = "built")

\* no middleware dispatched an action itself: each only called next
OnlyNext == \A j \in 1..Len(BuiltLog) : BuiltLog[j].ev = "call" => BuiltLog[j].i = 0

\* one action through n middlewares: the call, m1 .. mn entered,
\* store.dispatch, mn .. m1 left
OnionOrder(n) ==
    <<ReduxEvent("call", 0, "built")>>
    \o [i \in 1..n |-> ReduxEvent("enter", i, "built")]
    \o <<ReduxEvent("store", n + 1, "built")>>
    \o [i \in 1..n |-> ReduxEvent("exit", n + 1 - i, "built")]

\* C22: with every middleware calling next once, an action dispatched
\* through the dispatch of the returned store enters m1, m2, .., mn in the
\* order listed, reaches store.dispatch last and unwinds mn, .., m1; the
\* returned store has every field of the store unchanged except dispatch,
\* which is the composed function.
C22_OnionOrder ==
    /\ OnlyNext =>
          /\ \A j \in 1..Len(BuiltLog) :
                BuiltLog[j] = OnionOrder(redux.n)[((j - 1) % (2 * redux.n + 2)) + 1]
          /\ redux.pc = "built" /\ redux.calls = <<>> =>
                Len(BuiltLog) = redux.made * (2 * redux.n + 2)
    /\ redux.pc = "built" =>
          /\ DOMAIN redux.returned = DOMAIN redux.store
          /\ \A f \in DOMAIN redux.store \ {"dispatch"} : redux.returned[f] = redux.store[f]
          /\ redux.returned.dispatch = "composed"
          /\ redux.dispatch = redux.returned.dispatch

\* two actions have gone through two middlewares of a store whose getState
\* an earlier enhancer replaced
C22_Witness ==
    /\ redux.pc = "built"
    /\ redux.n = 2
    /\ redux.made = 2
    /\ redux.calls = <<>>
    /\ OnlyNext
    /\ BuiltLog = OnionOrder(2) \o OnionOrder(2)
    /\ redux.store.getState = "enhancedGetState"
    /\ redux.returned.getState = "enhancedGetState"

\* the context of a request for method and path that runs alone, once its
\* dispatch has run and k binding steps of its chain
Solo(method, path, k) ==
    LET c == DispatchContext(World, "parent", NewContext(method, path, 404))
        m == MatchRouter(World, "parent", path, method)
    IN  IF NoRoute(m) THEN c ELSE BindAll(c, heap, SubSeq(m.pathAndMethod, 1, k), 1)

\* what the router leaves in a context
Routing(c) ==
    [ matched |-> c.matched, params |-> c.params, captures |-> c.captures,
      matchedRoute |-> c.matchedRoute, matchedRouteName |-> c.matchedRouteName ]

\* C21: while requests are in flight, no step of a request changes the
\* stack of the router, a layer or the param handlers, and the matched
\* layers, params, captures and matched path and name in the context of each
\* request are those its own method and path give when it runs alone,
\* however the steps of the requests interleave.
C21_Isolation ==
    [][ phase' = "running" =>
          /\ heap' = heap
          /\ routers' = routers
          /\ \A q \in Requests :
                inflight'[q].pc \in {"chain", "done"} =>
                   Routing(inflight'[q].ctx) =
                      Routing(Solo(inflight'[q].ctx.method, inflight'[q].ctx.path,
                                   inflight'[q].bound)) ]_vars

\* two requests for different paths are suspended in handlers at once, one
\* with bound parameters, in a router that has a param handler
C21_Witness ==
    /\ inflight["a"].pc = "chain"
    /\ inflight["b"].pc = "chain"
    /\ inflight["a"].ctx.path = <<"forums", "%37", "42">>
    /\ inflight["b"].ctx.path = <<"x">>
    /\ inflight["a"].bound = 1
    /\ inflight["b"].bound = 1
    /\ inflight["a"].ctx.params # EmptyParams
    /\ inflight["b"].ctx.params = EmptyParams
    /\ inflight["a"].ctx.matched # inflight["b"].ctx.matched
    /\ routers["parent"].params # <<>>

====
